---------------------------- MODULE Spec2Model ----------------------------
(***************************************************************************)
(* State-machine model of the content ingestion pipeline of the           *)
(* graphCrawlers backend:                                                  *)
(*   - utils/urlCleaner           cleanUrl                                 *)
(*   - services/web3ScraperService  extractors, generatePostId,            *)
(*       scrapeCompanyByPlatform (on-demand ingest of one company and      *)
(*       platform into the Paragraph collection), fetchAllCompanyPosts,    *)
(*       savePostsToDatabase and fetchAndSaveAllPosts (the batch run over  *)
(*       all active companies, into the Web3Post collection)               *)
(*   - services/cronService       CronService (job registry on node-cron)  *)
(*                                                                         *)
(* Strings the code inspects character by character (URLs, query keys,    *)
(* post ids) are sequences of character codes.  Every `await` of the code  *)
(* is a point where another run or request may interleave, so each action  *)
(* below is the synchronous stretch of code between two awaits.            *)
(***************************************************************************)
EXTENDS Integers, Sequences, FiniteSets, TLC

\* ------------------------------------------------------------------------
\* Bounds of the model
\* ------------------------------------------------------------------------
\* Runs (batch runs and on-demand ingests) started in one behaviour.
MaxRuns == 2
\* Scheduler API calls (initialize, stopAllJobs, restartAllJobs, shutdown,
\* getJobStatus) made in one behaviour.
MaxCalls == 3

\* Failures one run may meet when it runs alone (a run of the directory
\* below issues at most 3 fetches and processes at most 6 posts, and each
\* of them fails at most once), and when it races with other ingests.
MaxFaults == 9
RaceFaults == 1
\* Query parameters of a URL and containers of a page given to the pure
\* functions.
MaxParams == 2
MaxContainers == 3
\* ids in one bulk request
MaxBulk == 2

\* ------------------------------------------------------------------------
\* Program constants
\* ------------------------------------------------------------------------
PostIdLen == 32
MinContentLen == 10
ContentFallbackLen == 1000
TitleMaxLen == 500
IngestDefaultMaxPosts == 10
ScheduledMaxPosts == 3
ManualDefaultMaxPosts == 5
\* the length of a heading longer than the schemas admit
LongTitleLen == TitleMaxLen + 1

\* ------------------------------------------------------------------------
\* Character strings
\* ------------------------------------------------------------------------
\* "http"
StrHttp == <<104, 116, 116, 112>>
\* "http://"
StrHttpScheme == <<104, 116, 116, 112, 58, 47, 47>>
\* "https://"
StrHttpsScheme == <<104, 116, 116, 112, 115, 58, 47, 47>>
\* "medium.com"
StrMediumCom == <<109, 101, 100, 105, 117, 109, 46, 99, 111, 109>>
\* "https://medium.com"
MediumBase == <<104, 116, 116, 112, 115, 58, 47, 47, 109, 101, 100, 105, 117, 109, 46, 99, 111, 109>>
\* "https://mirror.xyz"
MirrorBase == <<104, 116, 116, 112, 115, 58, 47, 47, 109, 105, 114, 114, 111, 114, 46, 120, 121, 122>>
\* "https://paragraph.xyz"
ParagraphBase == <<104, 116, 116, 112, 115, 58, 47, 47, 112, 97, 114, 97, 103, 114, 97, 112, 104, 46, 120, 121, 122>>
\* "https://pyarzgraph.xyz"
PyarzgraphBase == <<104, 116, 116, 112, 115, 58, 47, 47, 112, 121, 97, 114, 122, 103, 114, 97, 112, 104, 46, 120, 121, 122>>

\* The tracking parameters cleanUrl deletes, in the order of the source.
trackingParams ==
  << <<115, 111, 117, 114, 99, 101>>,                            \* source
     <<117, 116, 109, 95, 115, 111, 117, 114, 99, 101>>,         \* utm_source
     <<117, 116, 109, 95, 109, 101, 100, 105, 117, 109>>,        \* utm_medium
     <<117, 116, 109, 95, 99, 97, 109, 112, 97, 105, 103, 110>>, \* utm_campaign
     <<117, 116, 109, 95, 116, 101, 114, 109>>,                  \* utm_term
     <<117, 116, 109, 95, 99, 111, 110, 116, 101, 110, 116>>,    \* utm_content
     <<102, 98, 99, 108, 105, 100>>,                             \* fbclid
     <<103, 99, 108, 105, 100>>,                                 \* gclid
     <<114, 101, 102>>,                                          \* ref
     <<114, 101, 102, 101, 114, 114, 101, 114>>,                 \* referrer
     <<99, 97, 109, 112, 97, 105, 103, 110>>,                    \* campaign
     <<109, 101, 100, 105, 117, 109>>,                           \* medium
     <<99, 111, 110, 116, 101, 110, 116>>,                       \* content
     <<116, 101, 114, 109>>,                                     \* term
     <<95, 103, 97>>,                                            \* _ga
     <<95, 103, 108>>,                                           \* _gl
     <<109, 99, 95, 99, 105, 100>>,                              \* mc_cid
     <<109, 99, 95, 101, 105, 100>>,                             \* mc_eid
     <<109, 115, 99, 108, 107, 105, 100>>,                       \* msclkid
     <<121, 99, 108, 105, 100>> >>                               \* yclid

\* A-Z a-z 0-9 + /
Base64Alphabet == <<65, 66, 67, 68, 69, 70, 71, 72, 73, 74, 75, 76, 77, 78, 79, 80, 81, 82, 83, 84, 85, 86, 87, 88, 89, 90, 97, 98, 99, 100, 101, 102, 103, 104, 105, 106, 107, 108, 109, 110, 111, 112, 113, 114, 115, 116, 117, 118, 119, 120, 121, 122, 48, 49, 50, 51, 52, 53, 54, 55, 56, 57, 43, 47>>

\* ------------------------------------------------------------------------
\* String helpers (String.prototype.startsWith, includes, indexOf, split;
\* Array.prototype.slice)
\* ------------------------------------------------------------------------
Min(a, b) == IF a < b THEN a ELSE b

StartsWith(s, p) == Len(s) >= Len(p) /\ SubSeq(s, 1, Len(p)) = p

Includes(s, p) == \E i \in 1..(Len(s) - Len(p) + 1) : SubSeq(s, i, i + Len(p) - 1) = p

IndexOf(s, ch) ==
  IF \E i \in 1..Len(s) : s[i] = ch
  THEN CHOOSE i \in 1..Len(s) : s[i] = ch /\ \A j \in 1..(i - 1) : s[j] # ch
  ELSE 0

RECURSIVE Split(_, _)
Split(s, ch) ==
  LET i == IndexOf(s, ch)
  IN  IF i = 0 THEN <<s>>
      ELSE <<SubSeq(s, 1, i - 1)>> \o Split(SubSeq(s, i + 1, Len(s)), ch)

RECURSIVE Join(_, _)
Join(parts, ch) ==
  IF Len(parts) = 0 THEN <<>>
  ELSE IF Len(parts) = 1 THEN parts[1]
  ELSE parts[1] \o <<ch>> \o Join(Tail(parts), ch)

Slice(s, n) == SubSeq(s, 1, Min(n, Len(s)))

\* ------------------------------------------------------------------------
\* utils/urlCleaner: cleanUrl.  URLs are drawn from lower-case URLs without
\* fragment, port or characters that URL serialisation would escape.
\* ------------------------------------------------------------------------
\* new URL(url) succeeds: an http(s) scheme followed by a host
UrlParses(url) ==
  \E sch \in {StrHttpScheme, StrHttpsScheme} :
     /\ StartsWith(url, sch)
     /\ Len(url) > Len(sch)
     /\ url[Len(sch) + 1] \notin {47, 63}

\* "k=v" -> <<k, v>>
ParseParam(kv) ==
  LET e == IndexOf(kv, 61)
  IN  IF e = 0 THEN <<kv, <<>>>>
      ELSE <<SubSeq(kv, 1, e - 1), SubSeq(kv, e + 1, Len(kv))>>

\* the URL object: origin (scheme and host), hostname, pathname, searchParams
ParseUrl(url) ==
  LET q        == IndexOf(url, 63)
      noQuery  == IF q = 0 THEN url ELSE SubSeq(url, 1, q - 1)
      query    == IF q = 0 THEN <<>> ELSE SubSeq(url, q + 1, Len(url))
      schLen   == IF StartsWith(url, StrHttpsScheme) THEN Len(StrHttpsScheme)
                  ELSE Len(StrHttpScheme)
      rest     == SubSeq(noQuery, schLen + 1, Len(noQuery))
      slash    == IndexOf(rest, 47)
      pieces   == SelectSeq(Split(query, 38), LAMBDA kv : kv # <<>>)
  IN  [ scheme       |-> SubSeq(url, 1, schLen),
        hostname     |-> IF slash = 0 THEN rest ELSE SubSeq(rest, 1, slash - 1),
        pathname     |-> IF slash = 0 THEN <<47>> ELSE SubSeq(rest, slash, Len(rest)),
        searchParams |-> [i \in 1..Len(pieces) |-> ParseParam(pieces[i])] ]

\* urlObj.searchParams.delete(param)
DeleteParam(params, param) == SelectSeq(params, LAMBDA kv : kv[1] # param)

\* trackingParams.forEach(param => urlObj.searchParams.delete(param))
RECURSIVE DeleteParams(_, _)
DeleteParams(params, names) ==
  IF Len(names) = 0 THEN params
  ELSE DeleteParams(DeleteParam(params, Head(names)), Tail(names))

\* urlObj.toString()
UrlToString(u) ==
  u.scheme \o u.hostname \o u.pathname \o
    ( IF Len(u.searchParams) = 0 THEN <<>>
      ELSE <<63>> \o Join([i \in 1..Len(u.searchParams) |->
                             u.searchParams[i][1] \o <<61>> \o u.searchParams[i][2]], 38) )

cleanUrl(url) ==
  IF Len(url) = 0 THEN url
  ELSE IF ~UrlParses(url) THEN url
  ELSE LET urlObj  == ParseUrl(url)
           cleaned == DeleteParams(urlObj.searchParams, trackingParams)
           final   == IF Includes(urlObj.hostname, StrMediumCom) THEN <<>> ELSE cleaned
       IN  UrlToString([urlObj EXCEPT !.searchParams = final])

\* ------------------------------------------------------------------------
\* web3ScraperService.generatePostId:
\*   Buffer.from(url).toString("base64").replace(/[^a-zA-Z0-9]/g, "").substring(0, 32)
\* ------------------------------------------------------------------------
RECURSIVE ToBase64(_)
ToBase64(bytes) ==
  LET n  == Len(bytes)
      b1 == bytes[1]
      b2 == IF n >= 2 THEN bytes[2] ELSE 0
      b3 == IF n >= 3 THEN bytes[3] ELSE 0
      w  == b1 * 65536 + b2 * 256 + b3
      c1 == Base64Alphabet[(w \div 262144) + 1]
      c2 == Base64Alphabet[((w \div 4096) % 64) + 1]
      c3 == Base64Alphabet[((w \div 64) % 64) + 1]
      c4 == Base64Alphabet[(w % 64) + 1]
  IN  IF n = 0 THEN <<>>
      ELSE IF n = 1 THEN <<c1, c2, 61, 61>>
      ELSE IF n = 2 THEN <<c1, c2, c3, 61>>
      ELSE <<c1, c2, c3, c4>> \o ToBase64(SubSeq(bytes, 4, n))

IsAlphaNumeric(c) == c \in (48..57) \cup (65..90) \cup (97..122)

generatePostId(url) ==
  LET stripped == SelectSeq(ToBase64(url), IsAlphaNumeric)
  IN  SubSeq(stripped, 1, Min(PostIdLen, Len(stripped)))


\* ------------------------------------------------------------------------
\* The pages of the monitored sites.  A page is the sequence, in document
\* order, of its candidate elements; an element carries what the extractors
\* read from it: tag, data-testid, class, the href of its first anchor
\* (<<>>: none), the length of its heading text (0: none), the length of the
\* trimmed text of its <p> descendants and of its whole text.
\* ------------------------------------------------------------------------
\* "https://medium.com/@acme/a1?source=rss"
LinkA == <<104, 116, 116, 112, 115, 58, 47, 47, 109, 101, 100, 105, 117, 109, 46, 99, 111, 109, 47, 64, 97, 99, 109, 101, 47, 97, 49, 63, 115, 111, 117, 114, 99, 101, 61, 114, 115, 115>>
\* "/@acme/b2"
LinkB == <<47, 64, 97, 99, 109, 101, 47, 98, 50>>
\* "https://mirror.xyz/p1?utm_id=7&ref=x"
LinkC == <<104, 116, 116, 112, 115, 58, 47, 47, 109, 105, 114, 114, 111, 114, 46, 120, 121, 122, 47, 112, 49, 63, 117, 116, 109, 95, 105, 100, 61, 55, 38, 114, 101, 102, 61, 120>>
\* "/p2"
LinkD == <<47, 112, 50>>
\* "/s1"
LinkS == <<47, 115, 49>>
\* "/t1"
LinkT == <<47, 116, 49>>
\* "https://paragraph.xyz/p1"
LinkP == <<104, 116, 116, 112, 115, 58, 47, 47, 112, 97, 114, 97, 103, 114, 97, 112, 104, 46, 120, 121, 122, 47, 112, 49>>

Element(tag, testid, class, link, title, plen, tlen) ==
  [tag |-> tag, testid |-> testid, class |-> class, link |-> link,
   title |-> title, plen |-> plen, tlen |-> tlen]

\* What each profile link can serve: the versions of its page.
PageVersions(link) ==
  CASE link = "acme.medium" ->
         << << Element("article", "post-preview", "", LinkA, 20, 50, 80),
               Element("article", "post-preview", "", LinkB, 20, 40, 70) >> >>
    [] link = "acme.mirror" ->
         << << Element("div", "post-card", "", LinkC, 15, 30, 60) >>,
            << Element("div", "post-card", "", LinkD, 15, 35, 60),
               Element("div", "post-card", "", LinkC, 15, 30, 60) >> >>
    [] link = "beta.paragraph" ->
         << << Element("article", "", "post", LinkS, 12, 5, 30),
               Element("article", "", "post", LinkT, LongTitleLen, 20, 40),
               Element("div", "post", "", LinkP, 12, 25, 40) >> >>
    [] OTHER -> << <<>> >>

\* ------------------------------------------------------------------------
\* Extraction (cheerio selection over the fetched page)
\* ------------------------------------------------------------------------
Matches(el, sel) ==
  CASE sel = "article[data-testid='post-preview']" ->
         el.tag = "article" /\ el.testid = "post-preview"
    [] sel = "article"                      -> el.tag = "article"
    [] sel = "[data-testid='post-preview']" -> el.testid = "post-preview"
    [] sel = ".postArticle"                 -> el.class = "postArticle"
    [] sel = "[data-testid='post-card']"    -> el.testid = "post-card"
    [] sel = ".post-card"                   -> el.class = "post-card"
    [] sel = ".post"                        -> el.class = "post"
    [] sel = "[data-testid='post']"         -> el.testid = "post"
    [] OTHER -> FALSE

\* $("a, b, c"): the elements matching any of the selectors, in document order
Select(page, sels) == SelectSeq(page, LAMBDA el : \E sel \in sels : Matches(el, sel))

MapSeq(s, F(_)) == [i \in 1..Len(s) |-> F(s[i])]

\* link.startsWith("http") ? link : `${base}${link}`
FullUrl(link, base) == IF StartsWith(link, StrHttp) THEN link ELSE base \o link

ScrapedPost(el, base, platform, content) ==
  LET cleanedUrl == cleanUrl(FullUrl(el.link, base))
  IN  [ postId   |-> generatePostId(cleanedUrl),
        url      |-> cleanedUrl,
        title    |-> el.title,
        content  |-> content,
        platform |-> platform ]

\* fetchMediumPostsFromLink, after the fetch: the selector fallback chain,
\* the content fallback chain and the content check
MediumArticles(page) ==
  LET a1 == Select(page, {"article[data-testid='post-preview']"})
      a2 == Select(page, {"article"})
      a3 == Select(page, {"[data-testid='post-preview']"})
      a4 == Select(page, {".postArticle"})
  IN  IF Len(a1) # 0 THEN a1
      ELSE IF Len(a2) # 0 THEN a2
      ELSE IF Len(a3) # 0 THEN a3
      ELSE a4

MediumContent(el) == IF el.plen # 0 THEN el.plen ELSE Min(el.tlen, ContentFallbackLen)

fetchMediumPostsFromLink(page, maxPosts) ==
  LET articles == Slice(MediumArticles(page), maxPosts)
      kept     == SelectSeq(articles, LAMBDA el :
                    /\ el.title # 0 /\ Len(el.link) # 0
                    /\ ~(MediumContent(el) = 0 \/ MediumContent(el) < MinContentLen))
  IN  MapSeq(kept, LAMBDA el : ScrapedPost(el, MediumBase, "medium", MediumContent(el)))

fetchParagraphPostsFromLink(page, maxPosts) ==
  LET posts == Slice(Select(page, {"article", ".post", "[data-testid='post']"}), maxPosts)
      kept  == SelectSeq(posts, LAMBDA el : el.title # 0 /\ Len(el.link) # 0)
  IN  MapSeq(kept, LAMBDA el : ScrapedPost(el, ParagraphBase, "pyarzgraph", el.plen))

fetchMirrorPostsFromLink(page, maxPosts) ==
  LET posts == Slice(Select(page, {"[data-testid='post-card']", ".post-card", "article"}), maxPosts)
      kept  == SelectSeq(posts, LAMBDA el : el.title # 0 /\ Len(el.link) # 0)
  IN  MapSeq(kept, LAMBDA el : ScrapedPost(el, MirrorBase, "mirror", el.plen))

\* the switch of scrapeCompanyByPlatform over the platform
ScrapeFromLink(platform, page, maxPosts) ==
  CASE platform = "medium"    -> fetchMediumPostsFromLink(page, maxPosts)
    [] platform = "paragraph" -> fetchParagraphPostsFromLink(page, maxPosts)
    [] platform = "mirror"    -> fetchMirrorPostsFromLink(page, maxPosts)

\* fetchMediumPosts, fetchMirrorPosts, fetchPyarzgraphPosts (the batch run's
\* extractors), after the fetch
fetchMediumPosts(page, maxPosts) ==
  LET kept == SelectSeq(Slice(Select(page, {"article"}), maxPosts),
                        LAMBDA el : el.title # 0 /\ Len(el.link) # 0)
  IN  MapSeq(kept, LAMBDA el : ScrapedPost(el, MediumBase, "medium", el.plen))

fetchMirrorPosts(page, maxPosts) ==
  LET kept == SelectSeq(Slice(Select(page, {"[data-testid='post-card']", ".post-card", "article"}), maxPosts),
                        LAMBDA el : el.title # 0 /\ Len(el.link) # 0)
  IN  MapSeq(kept, LAMBDA el : ScrapedPost(el, MirrorBase, "mirror", el.plen))

fetchPyarzgraphPosts(page, maxPosts) ==
  LET kept == SelectSeq(Slice(Select(page, {"article", ".post", "[data-testid='post']"}), maxPosts),
                        LAMBDA el : el.title # 0 /\ Len(el.link) # 0)
  IN  MapSeq(kept, LAMBDA el : ScrapedPost(el, PyarzgraphBase, "pyarzgraph", el.plen))

ScrapeProfile(platform, page, maxPosts) ==
  CASE platform = "medium"     -> fetchMediumPosts(page, maxPosts)
    [] platform = "mirror"     -> fetchMirrorPosts(page, maxPosts)
    [] platform = "pyarzgraph" -> fetchPyarzgraphPosts(page, maxPosts)


\* ------------------------------------------------------------------------
\* What each request can be served: the posts the extractor returns for
\* every link, page version and maxPosts a run may carry.
\* ------------------------------------------------------------------------
\* maxPosts of an on-demand ingest; the argument of the manual trigger (0:
\* absent)
MaxPostsInputs == {1, IngestDefaultMaxPosts}
TriggerInputs == {0, 1}

Links == {"acme.medium", "acme.mirror", "beta.paragraph"}

Versions == [link \in Links |-> 1..Len(PageVersions(link))] @@ <<>>

\* posts = await this.fetchXPostsFromLink(link, maxPosts).  (`@@ <<>>`
\* has TLC tabulate the function once.)
LinkPosts ==
  [k \in {k \in {"medium", "paragraph", "mirror"} \X Links \X (1..2) \X MaxPostsInputs :
            k[3] \in Versions[k[2]]} |->
     ScrapeFromLink(k[1], PageVersions(k[2])[k[3]], k[4])] @@ <<>>

\* the posts of one fetch of fetchAllCompanyPosts
ProfilePosts ==
  [k \in {k \in {"medium", "mirror", "pyarzgraph"} \X Links \X (1..2)
                \X {1, ScheduledMaxPosts, ManualDefaultMaxPosts} :
            k[3] \in Versions[k[2]]} |->
     ScrapeProfile(k[1], PageVersions(k[2])[k[3]], k[4])] @@ <<>>

\* ------------------------------------------------------------------------
\* State
\* ------------------------------------------------------------------------
VARIABLES
  companies,      \* Company collection, in store order
  paragraphs,     \* Paragraph collection (written by scrapeCompanyByPlatform)
  web3posts,      \* Web3Post collection (written by savePostsToDatabase)
  runs,           \* the batch runs and on-demand ingests, by run id
  started,        \* number of runs started
  budget,         \* how many runs and scheduler calls this behaviour may make
  isInitialized,  \* CronService.isInitialized
  jobs,           \* CronService.jobs: job name -> timer task
  tasks,          \* the node-cron tasks created so far, by task id
  initPending,    \* initialize() calls awaiting web3ScraperService.initialize()
  closePending,   \* shutdown() calls awaiting web3ScraperService.close()
  scraperInit,    \* Web3ScraperService.isInitialized
  calls,          \* number of scheduler API calls made
  lastCall,       \* the last scheduler API call: what it found and returned
  deleting,       \* deleteCompany calls awaiting Paragraph.deleteMany, by company name
  input,          \* the argument of a call of a pure function
  output          \* what the call returned

pipeVars  == <<companies, paragraphs, web3posts, runs, started>>
schedVars == <<isInitialized, jobs, tasks, initPending, closePending, scraperInit, calls, lastCall>>
\* what neither a run nor the scheduler changes
otherVars == <<budget, deleting, input, output>>
vars      == <<companies, paragraphs, web3posts, runs, started, budget,
               isInitialized, jobs, tasks, initPending, closePending, scraperInit,
               calls, lastCall, deleting, input, output>>

RunIds == 1..MaxRuns

IngestPlatforms == {"medium", "paragraph", "mirror"}
\* the order of the Promise.all in fetchAllCompanyPosts
BatchPlatforms == <<"medium", "mirror", "pyarzgraph">>

Company(name, active, medium, paragraph, mirror) ==
  [companyName |-> name, isActive |-> active, mediumLink |-> medium,
   paragraphLink |-> paragraph, mirrorLink |-> mirror]

\* Names a request may carry: the companies of the directories and a
\* name it does not hold.
RequestNames == {"acme", "beta", "gone", "bare", "nobody"}

EmptyGot == [medium |-> <<>>, mirror |-> <<>>, pyarzgraph |-> <<>>]

IdleRun ==
  [ kind |-> "none", origin |-> "none", task |-> 0, pc |-> "idle",
    companyName |-> "", platform |-> "", maxPosts |-> 0, link |-> "",
    list |-> <<>>, ci |-> 0, inflight |-> {}, hung |-> {}, got |-> EmptyGot,
    posts |-> <<>>, idx |-> 0, saved |-> <<>>, err |-> "",
    \* history: the fetches answered, store calls that failed, duplicate-key
    \* errors met, the page version an ingest was served, the runs that
    \* had ended when this one began, the positions of the posts whose
    \* persisting failed, the names the directory held no active company for
    \* when the run began, whether the run inserted a record when the last
    \* call of the scheduler had been stopAllJobs() or shutdown()
    fetchLog |-> {}, storeErr |-> FALSE, dupHit |-> FALSE, html |-> 0, after |-> {},
    failed |-> {}, inactive |-> {}, afterStop |-> FALSE,
    delays |-> 0, faults |-> 0 ]

\* A failure of the environment (the directory or the store rejects a call,
\* a site answers with an error or never answers) may strike a run that has
\* met fewer of them than the behaviour's budget.
CanFail(run) == run.faults < budget.faults

Fault(run) == [run EXCEPT !.faults = @ + 1]

Ended(run) == run.pc \in {"done", "raised"}

\* ------------------------------------------------------------------------
\* The collections.  Both schemas declare postId and url `unique`, so the
\* store rejects an insert that repeats either (E11000).
\* ------------------------------------------------------------------------
\* a lookup by postId alone
FindParagraphByPostId(coll, post) == \E d \in coll : d.postId = post.postId

\* a lookup by url alone
FindParagraphByUrl(coll, post) == \E d \in coll : d.url = post.url

\* Paragraph.findOne({$or: [{"postData.postId": ...}, {"postData.url": ...}]})
FindParagraph(coll, post) == \E d \in coll : d.postId = post.postId \/ d.url = post.url

\* Web3Post.findOne({$or: [{postId}, {url}]})
FindWeb3Post(coll, post) == \E d \in coll : d.postId = post.postId \/ d.url = post.url

\* a store whose collections carry no unique index
DuplicateKeyNoIndex(coll, doc) == FALSE

\* the unique indexes on postId and on url
DuplicateKey(coll, doc) == \E d \in coll : d.postId = doc.postId \/ d.url = doc.url

\* schema validation on save: content required, title at most 500 characters
Validates(doc) == doc.content # 0 /\ doc.title # 0 /\ doc.title <= TitleMaxLen

\* a record created as already processed
NewParagraphProcessed(r, companyName, platform, post) ==
  [ companyName |-> companyName, platform |-> platform, postId |-> post.postId,
    url |-> post.url, title |-> post.title, content |-> post.content,
    processed |-> TRUE, processedAt |-> 1, by |-> r ]

\* new Paragraph({companyName, platform, postData, processed: false, fetchedAt});
\* processedAt 0: not set
NewParagraph(r, companyName, platform, post) ==
  [ companyName |-> companyName, platform |-> platform, postId |-> post.postId,
    url |-> post.url, title |-> post.title, content |-> post.content,
    processed |-> FALSE, processedAt |-> 0, by |-> r ]

NewWeb3Post(r, companyName, post) ==
  [ company |-> companyName, platform |-> post.platform, postId |-> post.postId,
    url |-> post.url, title |-> post.title, content |-> post.content, by |-> r ]

\* "legacy"
LegacyPostId == <<108, 101, 103, 97, 99, 121>>

\* Records a store may hold when a run begins: the first post of acme's
\* Mirror page, stored at an earlier time under another postId; the one of
\* the Paragraph collection has been marked processed since.
LegacyParagraphs ==
  { [ NewParagraph(0, "acme", "mirror", LinkPosts[<<"mirror", "acme.mirror", 1, 1>>][1])
        EXCEPT !.postId = LegacyPostId, !.processed = TRUE, !.processedAt = 1 ] }

\* the records of two earlier ingests, of acme's Medium page and of beta's
\* Paragraph page
EarlierParagraphs ==
  { NewParagraph(0, "acme", "medium",
                 LinkPosts[<<"medium", "acme.medium", 1, IngestDefaultMaxPosts>>][1]),
    NewParagraph(0, "beta", "paragraph",
                 LinkPosts[<<"paragraph", "beta.paragraph", 1, IngestDefaultMaxPosts>>][3]) }

LegacyWeb3Posts ==
  { [ NewWeb3Post(0, "acme", ProfilePosts[<<"mirror", "acme.mirror", 1, 1>>][1])
        EXCEPT !.postId = LegacyPostId ] }

\* ------------------------------------------------------------------------
\* Initial state
\* ------------------------------------------------------------------------
Directory ==
  << Company("acme", TRUE, "acme.medium", "", "acme.mirror"),
     Company("beta", TRUE, "", "beta.paragraph", ""),
     Company("gone", FALSE, "acme.medium", "", "") >>

\* a directory of one inactive company and one active company that has no
\* link for any platform
BareDirectory ==
  << Company("gone", FALSE, "acme.medium", "", ""),
     Company("bare", TRUE, "", "", "") >>

\* The behaviours explored, each with the runs and scheduler calls it may
\* make, the failures each of its runs may meet, and the requests that
\* arrive (`ingest`: on-demand ingests; `trigger`: the arguments of manual
\* triggers; `repeat`: every run repeats the request of the first):
\*   - one run, of any request, under every combination of failures;
\*   - MaxRuns ingests of one request, interleaved, each under at most
\*     RaceFaults failures;
\*   - MaxRuns manual batch runs of one post per platform, interleaved;
\*   - the scheduler under MaxCalls calls, with the run its content job
\*     starts, over the directory without links;
\*   - the scheduler under one call, with the run its content job starts
\*     under every combination of failures;
\*   - one run, of any request, over a store that holds the legacy records,
\*     while the directory's operations on acme and beta arrive
\*     (`primed`, `directory`);
\*   - one run, of any request, over the directory of an inactive company
\*     and an active company without links (`bare`);
\*   - the scheduler under two calls over that directory, with two runs
\*     that its content job or manual triggers start;
\*   - the requests to mark records of acme and beta processed, over a
\*     store that holds the legacy record and the records of two earlier
\*     ingests (`mark`);
\*   - the scheduler under two calls, with the run that its content job or
\*     a manual trigger starts.
Budgets ==
  { [runs |-> 1, calls |-> 0, faults |-> MaxFaults, repeat |-> FALSE,
     ingest |-> TRUE, trigger |-> TriggerInputs, primed |-> FALSE, directory |-> {}, bare |-> FALSE, mark |-> {}],
    [runs |-> MaxRuns, calls |-> 0, faults |-> RaceFaults, repeat |-> TRUE,
     ingest |-> TRUE, trigger |-> {}, primed |-> FALSE, directory |-> {}, bare |-> FALSE, mark |-> {}],
    [runs |-> MaxRuns, calls |-> 0, faults |-> 0, repeat |-> TRUE,
     ingest |-> FALSE, trigger |-> {1}, primed |-> FALSE, directory |-> {}, bare |-> FALSE, mark |-> {}],
    [runs |-> 1, calls |-> MaxCalls, faults |-> 0, repeat |-> FALSE,
     ingest |-> FALSE, trigger |-> {}, primed |-> FALSE, directory |-> {}, bare |-> TRUE, mark |-> {}],
    [runs |-> 1, calls |-> 1, faults |-> MaxFaults, repeat |-> FALSE,
     ingest |-> FALSE, trigger |-> {}, primed |-> FALSE, directory |-> {}, bare |-> FALSE, mark |-> {}],
    [runs |-> 1, calls |-> 0, faults |-> 0, repeat |-> FALSE,
     ingest |-> TRUE, trigger |-> {1}, primed |-> TRUE, directory |-> {"acme", "beta"}, bare |-> FALSE, mark |-> {}],
    [runs |-> 1, calls |-> 0, faults |-> 0, repeat |-> FALSE,
     ingest |-> TRUE, trigger |-> TriggerInputs, primed |-> FALSE, directory |-> {}, bare |-> TRUE, mark |-> {}],
    [runs |-> 2, calls |-> 2, faults |-> 0, repeat |-> FALSE,
     ingest |-> FALSE, trigger |-> TriggerInputs, primed |-> FALSE, directory |-> {}, bare |-> TRUE, mark |-> {}],
    [runs |-> 0, calls |-> 0, faults |-> 0, repeat |-> FALSE,
     ingest |-> FALSE, trigger |-> {}, primed |-> TRUE, directory |-> {}, bare |-> FALSE,
     mark |-> {"acme", "beta"}],
    [runs |-> 1, calls |-> 2, faults |-> 0, repeat |-> FALSE,
     ingest |-> FALSE, trigger |-> {1}, primed |-> FALSE, directory |-> {}, bare |-> FALSE, mark |-> {}] }

EmptyMap == [n \in {} |-> 0]

\* lastCall: the operation, what it found (the initialized flag, the
\* registry), whether it has returned to its caller, the value it returned,
\* and two facts about the calls so far: all were initialize(), and some
\* initialize() began while another was still awaiting.
NoCall ==
  [ op |-> "none", wasInitialized |-> FALSE, registry |-> EmptyMap, returned |-> TRUE,
    result |-> EmptyMap, onlyInit |-> TRUE, overlap |-> FALSE ]

\* no call of a pure function
NoInput == [fn |-> "none"]

NoOutput == [returned |-> FALSE, value |-> <<>>]

InitWith(b) ==
  /\ companies = (IF b.bare THEN BareDirectory ELSE Directory)
  /\ paragraphs = (IF b.primed THEN LegacyParagraphs ELSE {})
                    \cup (IF b.mark # {} THEN EarlierParagraphs ELSE {})
  /\ web3posts = (IF b.primed THEN LegacyWeb3Posts ELSE {})
  /\ deleting = {}
  /\ input = NoInput
  /\ output = NoOutput
  /\ runs = [r \in RunIds |-> IdleRun]
  /\ started = 0
  /\ budget = b
  /\ isInitialized = FALSE
  /\ jobs = EmptyMap
  /\ tasks = <<>>
  /\ initPending = 0
  /\ closePending = 0
  /\ scraperInit = FALSE
  /\ calls = 0
  /\ lastCall = NoCall

Init == \E b \in Budgets : InitWith(b)

\* ------------------------------------------------------------------------
\* On-demand ingest: scrapeCompanyByPlatform
\* ------------------------------------------------------------------------
\* a lookup that forgets the isActive filter
FindOneCompanyAnyState(dir, companyName) ==
  SelectSeq(dir, LAMBDA c : c.companyName = companyName)

\* Company.findOne({companyName, isActive: true})
FindOneCompany(dir, companyName) ==
  SelectSeq(dir, LAMBDA c : c.companyName = companyName /\ c.isActive)

SameRequest(a, b) ==
  /\ a.kind = b.kind
  /\ a.companyName = b.companyName
  /\ a.platform = b.platform
  /\ a.maxPosts = b.maxPosts

StartRun(r, run) ==
  /\ started < budget.runs
  /\ r = started + 1
  /\ budget.repeat /\ r > 1 => SameRequest(run, runs[1])
  /\ started' = r
  /\ runs' = [runs EXCEPT ![r] =
                [run EXCEPT !.after = {q \in RunIds : Ended(runs[q])},
                            !.inactive = {n \in RequestNames : Len(FindOneCompany(companies, n)) = 0}]]

\* the call, up to `await Company.findOne(...)`
scrapeCompanyByPlatform(r, companyName, platform, maxPosts) ==
  /\ budget.ingest
  /\ StartRun(r, [IdleRun EXCEPT !.kind = "ingest", !.origin = "ondemand",
                                 !.pc = "resolve", !.companyName = companyName,
                                 !.platform = platform, !.maxPosts = maxPosts])
  /\ UNCHANGED <<companies, paragraphs, web3posts, otherVars, schedVars>>

PlatformLink(company, platform) ==
  CASE platform = "medium"    -> company.mediumLink
    [] platform = "paragraph" -> company.paragraphLink
    [] platform = "mirror"    -> company.mirrorLink

\* the company lookup answers: not found, no link, or the fetch is issued
ResolveCompany(r) ==
  /\ runs[r].kind = "ingest" /\ runs[r].pc = "resolve"
  /\ LET run   == runs[r]
         found == FindOneCompany(companies, run.companyName)
     IN  \/ /\ CanFail(run)
            /\ runs' = [runs EXCEPT ![r] =
                  Fault([run EXCEPT !.pc = "raised", !.err = "DirectoryError"])]
         \/ runs' = [runs EXCEPT ![r] =
              IF Len(found) = 0
              THEN [run EXCEPT !.pc = "raised", !.err = "CompanyNotFound"]
              ELSE IF PlatformLink(found[1], run.platform) = ""
              THEN [run EXCEPT !.pc = "raised", !.err = "MissingLink"]
              ELSE [run EXCEPT !.pc = "fetch", !.inflight = {run.platform},
                               !.link = PlatformLink(found[1], run.platform)]]
  /\ UNCHANGED <<companies, paragraphs, web3posts, started, otherVars, schedVars>>

\* if (!post.content || post.content.trim().length < 10) continue
InsufficientContent(post) == post.content = 0 \/ post.content < MinContentLen

\* the next post, from position i on, that passes the content check
RECURSIVE NextSufficient(_, _)
NextSufficient(posts, i) ==
  IF i > Len(posts) THEN i
  ELSE IF InsufficientContent(posts[i]) THEN NextSufficient(posts, i + 1)
  ELSE i

\* the for loop of scrapeCompanyByPlatform, from post i up to the next await
IngestLoop(run, i) ==
  LET j == NextSufficient(run.posts, i)
  IN  [run EXCEPT !.idx = j, !.pc = IF j > Len(run.posts) THEN "done" ELSE "check"]

\* a loop whose catch rethrows
PostFailedRaises(run) ==
  [run EXCEPT !.storeErr = TRUE, !.failed = @ \cup {run.idx},
              !.pc = "raised", !.err = "StoreError"]

\* catch (error) { logger.error(`Error saving paragraph ...`) }: on to the
\* next post
PostFailed(run) ==
  IngestLoop([run EXCEPT !.storeErr = TRUE, !.failed = @ \cup {run.idx}], run.idx + 1)

\* axios.get answers (a page, or an error that the helper turns into [])
IngestFetchRespond(r) ==
  /\ runs[r].kind = "ingest" /\ runs[r].pc = "fetch"
  /\ runs[r].inflight # {}
  /\ LET run  == runs[r]
         link == run.link
     IN  \/ \E v \in Versions[link] :
              runs' = [runs EXCEPT ![r] =
                 IngestLoop([run EXCEPT
                     !.inflight = {}, !.html = v,
                     !.posts = LinkPosts[<<run.platform, link, v, run.maxPosts>>],
                     !.fetchLog = @ \cup {<<run.companyName, run.platform, "ok">>}], 1)]
         \/ /\ CanFail(run)
            /\ runs' = [runs EXCEPT ![r] =
                 IngestLoop([Fault(run) EXCEPT
                     !.inflight = {}, !.posts = <<>>,
                     !.fetchLog = @ \cup {<<run.companyName, run.platform, "failed">>}], 1)]
  /\ UNCHANGED <<companies, paragraphs, web3posts, started, otherVars, schedVars>>

\* a loop that returns the record it finds in the store
IngestFindReturnsExisting(r) ==
  /\ runs[r].kind = "ingest" /\ runs[r].pc = "check"
  /\ LET run  == runs[r]
         post == run.posts[run.idx]
     IN  \/ /\ CanFail(run)
            /\ runs' = [runs EXCEPT ![r] =
                  PostFailed(Fault(run))]
         \/ runs' = [runs EXCEPT ![r] =
              IF FindParagraph(paragraphs, post)
              THEN IngestLoop([run EXCEPT !.saved = Append(@, post)], run.idx + 1)
              ELSE [run EXCEPT !.pc = "save"]]
  /\ UNCHANGED <<companies, paragraphs, web3posts, started, otherVars, schedVars>>

\* Paragraph.findOne answers
IngestFind(r) ==
  /\ runs[r].kind = "ingest" /\ runs[r].pc = "check"
  /\ LET run  == runs[r]
         post == run.posts[run.idx]
     IN  \/ /\ CanFail(run)
            /\ runs' = [runs EXCEPT ![r] =
                  PostFailed(Fault(run))]
         \/ runs' = [runs EXCEPT ![r] =
              IF FindParagraph(paragraphs, post)
              THEN IngestLoop(run, run.idx + 1)
              ELSE [run EXCEPT !.pc = "save"]]
  /\ UNCHANGED <<companies, paragraphs, web3posts, started, otherVars, schedVars>>

\* a loop that drops the record it saved
PushNothing(saved, doc) == saved

\* savedParagraphs.push(savedParagraph)
Push(saved, doc) == Append(saved, doc)

\* newParagraph.save() answers
IngestSave(r) ==
  /\ runs[r].kind = "ingest" /\ runs[r].pc = "save"
  /\ LET run == runs[r]
         doc == NewParagraph(r, run.companyName, run.platform, run.posts[run.idx])
     IN  \/ /\ CanFail(run)
            /\ runs' = [runs EXCEPT ![r] =
                  PostFailed(Fault(run))]
            /\ UNCHANGED paragraphs
         \/ IF ~Validates(doc)
            THEN /\ runs' = [runs EXCEPT ![r] = PostFailed(run)]
                 /\ UNCHANGED paragraphs
            ELSE IF DuplicateKey(paragraphs, doc)
            THEN /\ runs' = [runs EXCEPT ![r] = IngestLoop([run EXCEPT !.dupHit = TRUE], run.idx + 1)]
                 /\ UNCHANGED paragraphs
            ELSE /\ paragraphs' = paragraphs \cup {doc}
                 /\ runs' = [runs EXCEPT ![r] =
                       IngestLoop([run EXCEPT !.saved = Push(@, doc)], run.idx + 1)]
  /\ UNCHANGED <<companies, web3posts, started, otherVars, schedVars>>


\* axios.get is given no timeout: a request the site never answers stays
\* pending, and nothing in the run is left to execute
IngestFetchHang(r) ==
  /\ runs[r].kind = "ingest" /\ runs[r].pc = "fetch"
  /\ runs[r].inflight # {}
  /\ CanFail(runs[r])
  /\ runs' = [runs EXCEPT ![r] = Fault([runs[r] EXCEPT !.hung = runs[r].inflight, !.inflight = {}])]
  /\ UNCHANGED <<companies, paragraphs, web3posts, started, otherVars, schedVars>>

\* ------------------------------------------------------------------------
\* Batch run: fetchAndSaveAllPosts, fetchAllCompanyPosts, savePostsToDatabase
\* (what the CronService that schedules fetchAndSaveAllPosts(3) runs; the
\* later CronService names the method fetchAndSaveAllParagraphs)
\* ------------------------------------------------------------------------
\* web3Company.medium / .mirror / .pyarzgraph of the company being processed
Handle(company, platform) ==
  CASE platform = "medium"     -> company.mediumLink
    [] platform = "mirror"     -> company.mirrorLink
    [] platform = "pyarzgraph" -> company.paragraphLink

\* the node-cron task of a scheduled run reports "scheduled" again once its
\* callback has settled
TaskSettled(ts, run) ==
  IF run.task # 0 /\ ts[run.task].status = "running"
  THEN [ts EXCEPT ![run.task].status = "scheduled"]
  ELSE ts

\* the loop body of fetchAndSaveAllPosts for company i, up to the first
\* await: fetchAllCompanyPosts starts the fetch of every platform the
\* company has a handle for (Promise.all)
\* a loop body that rejects a company without any handle
BeginCompanyRaising(run, i) ==
  LET c     == run.list[i]
      plats == {BatchPlatforms[k] : k \in {k \in 1..Len(BatchPlatforms) :
                                             Handle(c, BatchPlatforms[k]) # ""}}
  IN  IF plats = {}
      THEN [run EXCEPT !.ci = i, !.pc = "raised", !.err = "MissingLink"]
      ELSE [run EXCEPT !.ci = i, !.got = EmptyGot, !.posts = <<>>, !.idx = 1,
                       !.inflight = plats, !.pc = "fetch"]

BeginCompany(run, i) ==
  LET c     == run.list[i]
      plats == {BatchPlatforms[k] : k \in {k \in 1..Len(BatchPlatforms) :
                                             Handle(c, BatchPlatforms[k]) # ""}}
  IN  IF plats = {}
      THEN [run EXCEPT !.ci = i, !.got = EmptyGot, !.posts = <<>>, !.idx = 1, !.pc = "delay"]
      ELSE [run EXCEPT !.ci = i, !.got = EmptyGot, !.posts = <<>>, !.idx = 1,
                       !.inflight = plats, !.pc = "fetch"]

\* a manual trigger that fires the registered content job
triggerViaJob(r, arg) ==
  /\ arg \in budget.trigger
  /\ "web3ContentFetching" \in DOMAIN jobs
  /\ StartRun(r, [IdleRun EXCEPT !.kind = "batch", !.origin = "manual", !.pc = "list",
                                 !.task = jobs["web3ContentFetching"],
                                 !.maxPosts = IF arg = 0 THEN ManualDefaultMaxPosts ELSE arg])
  /\ tasks' = [tasks EXCEPT ![jobs["web3ContentFetching"]].status = "running"]
  /\ UNCHANGED <<companies, paragraphs, web3posts, otherVars,
                 isInitialized, jobs, initPending, closePending, scraperInit, calls, lastCall>>

\* cronService.triggerWeb3ContentFetching(maxPostsPerCompany): the manual
\* trigger; arg 0 stands for an absent argument (maxPostsPerCompany || 5)
triggerWeb3ContentFetching(r, arg) ==
  /\ arg \in budget.trigger
  /\ StartRun(r, [IdleRun EXCEPT !.kind = "batch", !.origin = "manual", !.pc = "list",
                                 !.maxPosts = IF arg = 0 THEN ManualDefaultMaxPosts ELSE arg])
  /\ UNCHANGED <<companies, paragraphs, web3posts, otherVars, schedVars>>

\* a listing that forgets the isActive filter
FindAllCompanies(dir) == dir

\* Company.find({isActive: true})
FindActiveCompanies(dir) == SelectSeq(dir, LAMBDA c : c.isActive)

\* Company.find({isActive: true}).lean() answers.  The call is outside the
\* try of fetchAndSaveAllPosts: a rejection rejects the whole run.
ListCompanies(r) ==
  /\ runs[r].kind = "batch" /\ runs[r].pc = "list"
  /\ LET run    == runs[r]
         active == FindActiveCompanies(companies)
     IN  \/ /\ CanFail(run)
            /\ runs' = [runs EXCEPT ![r] =
                  Fault([run EXCEPT !.pc = "raised", !.err = "DirectoryError"])]
            /\ tasks' = TaskSettled(tasks, run)
         \/ IF Len(active) = 0
            THEN /\ runs' = [runs EXCEPT ![r] = [run EXCEPT !.pc = "done"]]
                 /\ tasks' = TaskSettled(tasks, run)
            ELSE /\ runs' = [runs EXCEPT ![r] = BeginCompany([run EXCEPT !.list = active], 1)]
                 /\ UNCHANGED tasks
  /\ UNCHANGED <<companies, paragraphs, web3posts, started, otherVars,
                 isInitialized, jobs, initPending, closePending, scraperInit, calls, lastCall>>

\* const [mediumPosts, mirrorPosts, pyarzgraphPosts] = await Promise.all([...]);
\* allPosts.push(...mediumPosts, ...mirrorPosts, ...pyarzgraphPosts)
AllPosts(got) == got.medium \o got.mirror \o got.pyarzgraph

\* a loop that goes to the next company at once when the company gave no post
BatchLoopSkipsDelay(run, i) ==
  IF Len(run.posts) = 0 /\ run.ci < Len(run.list)
  THEN BeginCompany(run, run.ci + 1)
  ELSE [run EXCEPT !.idx = i, !.pc = IF i > Len(run.posts) THEN "delay" ELSE "check"]

\* savePostsToDatabase and what follows it, from post i up to the next await
BatchLoop(run, i) ==
  [run EXCEPT !.idx = i, !.pc = IF i > Len(run.posts) THEN "delay" ELSE "check"]

\* a loop over the companies that a company's failed fetch ends (the error
\* escapes fetchXPosts and the catch of the loop body breaks)
BatchFetchDoneBreaking(run, p, posts, outcome) ==
  LET got  == [run.got EXCEPT ![p] = posts]
      left == run.inflight \ {p}
      next == [run EXCEPT !.got = got, !.inflight = left,
                 !.fetchLog = @ \cup {<<run.list[run.ci].companyName, p, outcome>>}]
  IN  IF left = {} /\ run.hung = {}
      THEN IF \E q \in DOMAIN got : <<run.list[run.ci].companyName, q, "failed">> \in next.fetchLog
           THEN [next EXCEPT !.ci = Len(run.list), !.pc = "delay"]
           ELSE BatchLoop([next EXCEPT !.posts = AllPosts(got)], 1)
      ELSE next

\* one of the fetches of the current company answers: a page, or an error
\* that fetchXPosts turns into []
BatchFetchDone(run, p, posts, outcome) ==
  LET got  == [run.got EXCEPT ![p] = posts]
      left == run.inflight \ {p}
      next == [run EXCEPT !.got = got, !.inflight = left,
                 !.fetchLog = @ \cup {<<run.list[run.ci].companyName, p, outcome>>}]
  IN  IF left = {} /\ run.hung = {}
      THEN BatchLoop([next EXCEPT !.posts = AllPosts(got)], 1)
      ELSE next

BatchFetchRespond(r, p) ==
  /\ runs[r].kind = "batch" /\ runs[r].pc = "fetch"
  /\ p \in runs[r].inflight
  /\ LET run    == runs[r]
         handle == Handle(run.list[run.ci], p)
     IN  \/ \E v \in Versions[handle] :
               runs' = [runs EXCEPT ![r] =
                  BatchFetchDone(run, p, ProfilePosts[<<p, handle, v, run.maxPosts>>], "ok")]
         \/ /\ CanFail(run)
            /\ runs' = [runs EXCEPT ![r] = BatchFetchDone(Fault(run), p, <<>>, "failed")]
  /\ UNCHANGED <<companies, paragraphs, web3posts, started, otherVars, schedVars>>

BatchFetchHang(r, p) ==
  /\ runs[r].kind = "batch" /\ runs[r].pc = "fetch"
  /\ p \in runs[r].inflight
  /\ CanFail(runs[r])
  /\ runs' = [runs EXCEPT ![r] =
        Fault([runs[r] EXCEPT !.hung = @ \cup {p}, !.inflight = @ \ {p}])]
  /\ UNCHANGED <<companies, paragraphs, web3posts, started, otherVars, schedVars>>

\* Web3Post.findOne answers
BatchFind(r) ==
  /\ runs[r].kind = "batch" /\ runs[r].pc = "check"
  /\ LET run  == runs[r]
         post == run.posts[run.idx]
     IN  \/ /\ CanFail(run)
            /\ runs' = [runs EXCEPT ![r] =
                  BatchLoop([Fault(run) EXCEPT !.storeErr = TRUE], run.idx + 1)]
         \/ runs' = [runs EXCEPT ![r] =
              IF FindWeb3Post(web3posts, post)
              THEN BatchLoop(run, run.idx + 1)
              ELSE [run EXCEPT !.pc = "save"]]
  /\ UNCHANGED <<companies, paragraphs, web3posts, started, otherVars, schedVars>>

\* newPost.save() answers
BatchSave(r) ==
  /\ runs[r].kind = "batch" /\ runs[r].pc = "save"
  /\ LET run == runs[r]
         doc == NewWeb3Post(r, run.list[run.ci].companyName, run.posts[run.idx])
     IN  \/ /\ CanFail(run)
            /\ runs' = [runs EXCEPT ![r] =
                  BatchLoop([Fault(run) EXCEPT !.storeErr = TRUE], run.idx + 1)]
            /\ UNCHANGED web3posts
         \/ IF ~Validates(doc)
            THEN /\ runs' = [runs EXCEPT ![r] = BatchLoop([run EXCEPT !.storeErr = TRUE], run.idx + 1)]
                 /\ UNCHANGED web3posts
            ELSE IF DuplicateKey(web3posts, doc)
            THEN /\ runs' = [runs EXCEPT ![r] = BatchLoop([run EXCEPT !.dupHit = TRUE], run.idx + 1)]
                 /\ UNCHANGED web3posts
            ELSE /\ web3posts' = web3posts \cup {doc}
                 /\ runs' = [runs EXCEPT ![r] =
                       BatchLoop([run EXCEPT !.saved = Append(@, doc),
                                             !.afterStop = @ \/ lastCall.op \in {"stopAllJobs", "shutdown"}],
                                 run.idx + 1)]
  /\ UNCHANGED <<companies, paragraphs, started, otherVars, schedVars>>

\* await new Promise((resolve) => setTimeout(resolve, 2000)) elapses: on to
\* the next company, or return allSavedPosts
BatchDelay(r) ==
  /\ runs[r].kind = "batch" /\ runs[r].pc = "delay"
  /\ LET run == runs[r]
     IN  IF run.ci < Len(run.list)
         THEN /\ runs' = [runs EXCEPT ![r] = BeginCompany([run EXCEPT !.delays = @ + 1], run.ci + 1)]
              /\ UNCHANGED tasks
         ELSE /\ runs' = [runs EXCEPT ![r] = [run EXCEPT !.delays = @ + 1, !.pc = "done"]]
              /\ tasks' = TaskSettled(tasks, run)
  /\ UNCHANGED <<companies, paragraphs, web3posts, started, otherVars,
                 isInitialized, jobs, initPending, closePending, scraperInit, calls, lastCall>>


\* ------------------------------------------------------------------------
\* CronService on node-cron.  A task is what cron.schedule returns: it
\* reports "scheduled" once started, "running" while its callback runs and
\* "stopped" after stop(); a stopped task fires no more.
\* ------------------------------------------------------------------------
JobNames == {"web3ContentFetching", "cleanup"}

MapPut(m, k, v) == [x \in DOMAIN m \cup {k} |-> IF x = k THEN v ELSE m[x]]

\* const job = cron.schedule(...); this.jobs.set(name, job); job.start()
Schedule(st, name) ==
  [ tasks |-> Append(st.tasks, [name |-> name, status |-> "scheduled"]),
    jobs  |-> MapPut(st.jobs, name, Len(st.tasks) + 1) ]

scheduleWeb3ContentFetching(st) == Schedule(st, "web3ContentFetching")

scheduleCleanup(st) == Schedule(st, "cleanup")

\* a stopAllJobs that clears the registry without stopping the tasks
StopJobsForgotten(ts, js) == ts

\* this.jobs.forEach((job) => job.stop())
StopJobs(ts, js) ==
  [t \in DOMAIN ts |->
     IF \E n \in DOMAIN js : js[n] = t THEN [ts[t] EXCEPT !.status = "stopped"] ELSE ts[t]]

\* a status read from the service's own flag
getJobStatusFromFlag(ts, js) == [n \in DOMAIN js |-> isInitialized]

\* this.jobs.forEach((job, name) => { status[name] = job.getStatus() === "scheduled" })
getJobStatus(ts, js) == [n \in DOMAIN js |-> ts[js[n]].status = "scheduled"]

Call(op, returned, result) ==
  /\ calls < budget.calls
  /\ calls' = calls + 1
  /\ lastCall' = [ op |-> op, wasInitialized |-> isInitialized, registry |-> jobs,
                   returned |-> returned, result |-> result,
                   onlyInit |-> lastCall.onlyInit /\ op = "initialize",
                   overlap  |-> lastCall.overlap \/ (op = "initialize" /\ initPending > 0) ]

\* an initialize() without the isInitialized guard
initializeUnguarded ==
  /\ Call("initialize", FALSE, EmptyMap)
  /\ initPending' = initPending + 1
  /\ UNCHANGED <<pipeVars, otherVars, isInitialized, jobs, tasks, closePending, scraperInit>>

\* initialize(), up to `await web3ScraperService.initialize()`
initialize ==
  /\ Call("initialize", isInitialized, EmptyMap)
  /\ initPending' = IF isInitialized THEN initPending ELSE initPending + 1
  /\ UNCHANGED <<pipeVars, otherVars, isInitialized, jobs, tasks, closePending, scraperInit>>

\* initialize() after the await: the scraper started (or was running), both
\* jobs are scheduled and the flag is set; or puppeteer.launch failed and
\* initialize() rethrows
initializeResume ==
  /\ initPending > 0
  /\ initPending' = initPending - 1
  /\ \/ LET st == scheduleCleanup(scheduleWeb3ContentFetching([tasks |-> tasks, jobs |-> jobs]))
        IN  /\ tasks' = st.tasks
            /\ jobs' = st.jobs
            /\ isInitialized' = TRUE
            /\ scraperInit' = TRUE
     \/ /\ ~scraperInit
        /\ UNCHANGED <<tasks, jobs, isInitialized, scraperInit>>
  /\ UNCHANGED <<pipeVars, otherVars, closePending, calls, lastCall>>

stopAllJobs ==
  /\ Call("stopAllJobs", TRUE, EmptyMap)
  /\ tasks' = StopJobs(tasks, jobs)
  /\ jobs' = EmptyMap
  /\ UNCHANGED <<pipeVars, otherVars, isInitialized, initPending, closePending, scraperInit>>

\* this.stopAllJobs(); await this.initialize()
restartAllJobs ==
  /\ Call("restartAllJobs", isInitialized, EmptyMap)
  /\ tasks' = StopJobs(tasks, jobs)
  /\ jobs' = EmptyMap
  /\ initPending' = IF isInitialized THEN initPending ELSE initPending + 1
  /\ UNCHANGED <<pipeVars, otherVars, isInitialized, closePending, scraperInit>>

jobStatus ==
  /\ Call("getJobStatus", TRUE, getJobStatus(tasks, jobs))
  /\ UNCHANGED <<pipeVars, otherVars, isInitialized, jobs, tasks, initPending, closePending, scraperInit>>

\* shutdown(), up to `await web3ScraperService.close()`
shutdown ==
  /\ Call("shutdown", FALSE, EmptyMap)
  /\ tasks' = StopJobs(tasks, jobs)
  /\ jobs' = EmptyMap
  /\ closePending' = closePending + 1
  /\ UNCHANGED <<pipeVars, otherVars, isInitialized, initPending, scraperInit>>

\* shutdown() after the await: the browser is closed, the flags are reset
shutdownResume ==
  /\ closePending > 0
  /\ closePending' = closePending - 1
  /\ scraperInit' = FALSE
  /\ isInitialized' = FALSE
  /\ UNCHANGED <<pipeVars, otherVars, jobs, tasks, initPending, calls, lastCall>>

\* the content job fires: its callback starts a batch run with 3 posts per
\* company
ContentJobFire(t, r) ==
  /\ t \in DOMAIN tasks
  /\ tasks[t].name = "web3ContentFetching"
  /\ tasks[t].status # "stopped"
  /\ StartRun(r, [IdleRun EXCEPT !.kind = "batch", !.origin = "schedule", !.task = t,
                                 !.pc = "list", !.maxPosts = ScheduledMaxPosts])
  /\ tasks' = [tasks EXCEPT ![t].status = "running"]
  /\ UNCHANGED <<companies, paragraphs, web3posts, otherVars,
                 isInitialized, jobs, initPending, closePending, scraperInit, calls, lastCall>>

\* the cleanup job fires; its callback is a placeholder
CleanupJobFire(t) ==
  /\ t \in DOMAIN tasks
  /\ tasks[t].name = "cleanup"
  /\ tasks[t].status = "scheduled"
  /\ tasks' = [tasks EXCEPT ![t].status = "running"]
  /\ UNCHANGED <<pipeVars, otherVars, isInitialized, jobs, initPending, closePending,
                 scraperInit, calls, lastCall>>

CleanupJobDone(t) ==
  /\ t \in DOMAIN tasks
  /\ tasks[t].name = "cleanup"
  /\ tasks[t].status = "running"
  /\ tasks' = [tasks EXCEPT ![t].status = "scheduled"]
  /\ UNCHANGED <<pipeVars, otherVars, isInitialized, jobs, initPending, closePending,
                 scraperInit, calls, lastCall>>

\* ------------------------------------------------------------------------
\* The directory's operations on a company
\* ------------------------------------------------------------------------
\* Company.findOneAndUpdate({companyName}, {isActive: false})
removeWeb3Company(companyName) ==
  /\ companyName \in budget.directory
  /\ companies' = [i \in DOMAIN companies |->
                     IF companies[i].companyName = companyName
                     THEN [companies[i] EXCEPT !.isActive = FALSE]
                     ELSE companies[i]]
  /\ UNCHANGED <<paragraphs, web3posts, runs, started, schedVars, otherVars>>

\* DELETE /api/companies/:id, up to `await Paragraph.deleteMany(...)`:
\* Company.findByIdAndDelete(id) has removed the entry (404 when there is none)
deleteCompany(companyName) ==
  /\ companyName \in budget.directory
  /\ \E i \in DOMAIN companies : companies[i].companyName = companyName
  /\ companies' = SelectSeq(companies, LAMBDA c : c.companyName # companyName)
  /\ deleting' = deleting \cup {companyName}
  /\ UNCHANGED <<paragraphs, web3posts, runs, started, schedVars, budget, input, output>>

\* Paragraph.deleteMany({companyName: company.companyName}) answers
deleteCompanyResume(companyName) ==
  /\ companyName \in deleting
  /\ deleting' = deleting \ {companyName}
  /\ paragraphs' = {d \in paragraphs : d.companyName # companyName}
  /\ UNCHANGED <<companies, web3posts, runs, started, schedVars, budget, input, output>>

\* ------------------------------------------------------------------------
\* The processed flag: markParagraphAsProcessed, bulkMarkParagraphsAsProcessed.
\* The id of a record (_id) is modelled by its postId, which like _id is
\* unique in the collection; processedAt 1: set.
\* ------------------------------------------------------------------------
\* an id that no record carries
UnknownId == <<120>>

\* the ids a request may carry: those of the stored records and one more
RequestIds == {d.postId : d \in paragraphs} \cup {UnknownId}

\* a filter that forgets the company
MarkFilterById(d, companyName, ids) == d.postId \in ids

\* { _id: id, companyName } and { _id: { $in: paragraphIds }, companyName }
MarkFilter(d, companyName, ids) == d.postId \in ids /\ d.companyName = companyName

\* { processed: true, processedAt: new Date() }
SetProcessed(d) == [d EXCEPT !.processed = TRUE, !.processedAt = 1]

UpdateMany(coll, companyName, ids) ==
  {IF MarkFilter(d, companyName, ids) THEN SetProcessed(d) ELSE d : d \in coll}

\* PATCH /api/companies/:companyName/paragraphs/:id/process: 404 when
\* findOneAndUpdate finds no record, else 200
markParagraphAsProcessed(companyName, id) ==
  /\ companyName \in budget.mark
  /\ input' = [fn |-> "markParagraphAsProcessed", companyName |-> companyName, ids |-> {id}]
  /\ paragraphs' = UpdateMany(paragraphs, companyName, {id})
  /\ output' = [returned |-> TRUE,
                 value |-> IF \E d \in paragraphs : MarkFilter(d, companyName, {id})
                           THEN <<200>> ELSE <<404>>]
  /\ UNCHANGED <<companies, web3posts, runs, started, schedVars, budget, deleting>>

\* PATCH /api/companies/:companyName/paragraphs/bulk-process: 400 for an
\* empty list, else 200 with the number of records updateMany modified
bulkMarkParagraphsAsProcessed(companyName, paragraphIds) ==
  /\ companyName \in budget.mark
  /\ input' = [fn |-> "bulkMarkParagraphsAsProcessed", companyName |-> companyName,
                ids |-> paragraphIds]
  /\ IF paragraphIds = {}
     THEN /\ output' = [returned |-> TRUE, value |-> <<400>>]
          /\ UNCHANGED paragraphs
     ELSE /\ paragraphs' = UpdateMany(paragraphs, companyName, paragraphIds)
          /\ output' = [returned |-> TRUE,
                         value |-> <<200, Cardinality({d \in paragraphs :
                                            MarkFilter(d, companyName, paragraphIds)})>>]
  /\ UNCHANGED <<companies, web3posts, runs, started, schedVars, budget, deleting>>

\* ------------------------------------------------------------------------
\* Specification
\* ------------------------------------------------------------------------
TaskIds == 1..(2 * (MaxCalls + 1))

\* the steps of run r, and the answers of the directory, the sites and the
\* store to it
RunStep(r) ==
  \/ ResolveCompany(r)
  \/ IngestFetchRespond(r)
  \/ IngestFind(r)
  \/ IngestSave(r)
  \/ ListCompanies(r)
  \/ \E p \in {"medium", "mirror", "pyarzgraph"} : BatchFetchRespond(r, p)
  \/ BatchFind(r)
  \/ BatchSave(r)
  \/ BatchDelay(r)

PipelineNext ==
  \/ \E r \in RunIds, name \in RequestNames, platform \in IngestPlatforms, maxPosts \in MaxPostsInputs :
        scrapeCompanyByPlatform(r, name, platform, maxPosts)
  \/ \E r \in RunIds, arg \in TriggerInputs : triggerWeb3ContentFetching(r, arg)
  \/ \E r \in RunIds : RunStep(r)
  \/ \E r \in RunIds : IngestFetchHang(r)
  \/ \E r \in RunIds, p \in {"medium", "mirror", "pyarzgraph"} : BatchFetchHang(r, p)
  \/ initialize
  \/ initializeResume
  \/ stopAllJobs
  \/ restartAllJobs
  \/ jobStatus
  \/ shutdown
  \/ shutdownResume
  \/ \E t \in TaskIds, r \in RunIds : ContentJobFire(t, r)
  \/ \E t \in TaskIds : CleanupJobFire(t)
  \/ \E t \in TaskIds : CleanupJobDone(t)
  \/ \E name \in RequestNames : removeWeb3Company(name)
  \/ \E name \in RequestNames : deleteCompany(name)
  \/ \E name \in RequestNames : deleteCompanyResume(name)

Next ==
  \/ PipelineNext
  \/ \E name \in RequestNames, id \in RequestIds : markParagraphAsProcessed(name, id)
  \/ \E name \in RequestNames, ids \in SUBSET RequestIds :
        Cardinality(ids) <= MaxBulk /\ bulkMarkParagraphsAsProcessed(name, ids)

Spec == Init /\ [][Next]_vars


\* A run that can take a step takes one: the event loop resumes every
\* settled await.  Nothing obliges a site to answer.  The requests on the
\* processed flag touch no run and are left out.
LiveInit ==
  InitWith([runs |-> 1, calls |-> 1, faults |-> MaxFaults, repeat |-> FALSE,
            ingest |-> TRUE, trigger |-> TriggerInputs, primed |-> FALSE,
            directory |-> {"gone"}, bare |-> FALSE, mark |-> {}])

LiveSpec == LiveInit /\ [][PipelineNext]_vars /\ \A r \in RunIds : WF_vars(RunStep(r))

\* ------------------------------------------------------------------------
\* The pure functions on their own: cleanUrl over the URLs of two hosts
\* with up to MaxParams query parameters, the link extractors over the
\* pages of up to MaxContainers containers.
\* ------------------------------------------------------------------------
\* "utm_id", "id"
ParamUtmId == <<117, 116, 109, 95, 105, 100>>
ParamId == <<105, 100>>

\* the keys a query may carry: those cleanUrl deletes, a campaign parameter
\* it does not list, and a parameter of the page
UrlKeys == {trackingParams[i] : i \in DOMAIN trackingParams} \cup {ParamUtmId, ParamId}

\* "https://medium.com", "https://mirror.xyz"
UrlOrigins ==
  { <<104, 116, 116, 112, 115, 58, 47, 47, 109, 101, 100, 105, 117, 109, 46, 99, 111, 109>>,
    <<104, 116, 116, 112, 115, 58, 47, 47, 109, 105, 114, 114, 111, 114, 46, 120, 121, 122>> }

SeqsUpTo(S, n) == UNION {[1..k -> S] : k \in 0..n}

\* origin/p?k1=1&k2=2...
BuildUrl(origin, keys) ==
  origin \o <<47, 112>> \o
    ( IF Len(keys) = 0 THEN <<>>
      ELSE <<63>> \o Join([i \in 1..Len(keys) |-> keys[i] \o <<61, 48 + i>>], 38) )

UrlInputs ==
  { [fn |-> "cleanUrl", origin |-> o, keys |-> ks, url |-> BuildUrl(o, ks)] :
      o \in UrlOrigins, ks \in SeqsUpTo(UrlKeys, MaxParams) }

\* "/g1", "/g2", "/n1", "/m1", "/m2"
LinkG1 == <<47, 103, 49>>
LinkG2 == <<47, 103, 50>>
LinkN == <<47, 110, 49>>
LinkM1 == <<47, 109, 49>>
LinkM2 == <<47, 109, 50>>

\* the containers a page may hold: two well-formed articles, one without
\* heading, one without anchor, one with 5 characters of text, and two
\* well-formed elements that are no article
Containers ==
  { Element("div", "post-card", "post", LinkM1, 20, 50, 80),
    Element("div", "post-preview", "postArticle", LinkM2, 20, 50, 80) } \cup
  { Element("article", "post-preview", "", LinkG1, 20, 50, 80),
    Element("article", "post-preview", "", LinkG2, 20, 40, 70),
    Element("article", "post-preview", "", LinkN, 0, 50, 80),
    Element("article", "post-preview", "", <<>>, 20, 50, 80),
    Element("article", "post-preview", "", LinkS, 20, 5, 5) }

ExtractInputs ==
  { [fn |-> "extract", platform |-> p, page |-> pg, maxPosts |-> n] :
      p \in IngestPlatforms, pg \in SeqsUpTo(Containers, MaxContainers), n \in 1..MaxContainers }

QuietBudget ==
  [runs |-> 0, calls |-> 0, faults |-> 0, repeat |-> FALSE, ingest |-> FALSE,
   trigger |-> {}, primed |-> FALSE, directory |-> {}, bare |-> FALSE, mark |-> {}]

PureInit ==
  /\ companies = Directory
  /\ paragraphs = {}
  /\ web3posts = {}
  /\ deleting = {}
  /\ runs = [r \in RunIds |-> IdleRun]
  /\ started = 0
  /\ budget = QuietBudget
  /\ isInitialized = FALSE
  /\ jobs = EmptyMap
  /\ tasks = <<>>
  /\ initPending = 0
  /\ closePending = 0
  /\ scraperInit = FALSE
  /\ calls = 0
  /\ lastCall = NoCall
  /\ input \in UrlInputs \cup ExtractInputs
  /\ output = NoOutput

\* cleanUrl(url) returns
CallCleanUrl ==
  /\ input.fn = "cleanUrl" /\ ~output.returned
  /\ output' = [returned |-> TRUE, value |-> cleanUrl(input.url)]
  /\ UNCHANGED <<pipeVars, schedVars, budget, deleting, input>>

\* fetchXPostsFromLink returns, the page fetched
CallExtractor ==
  /\ input.fn = "extract" /\ ~output.returned
  /\ output' = [returned |-> TRUE,
                 value |-> ScrapeFromLink(input.platform, input.page, input.maxPosts)]
  /\ UNCHANGED <<pipeVars, schedVars, budget, deleting, input>>

PureNext == CallCleanUrl \/ CallExtractor

PureSpec == PureInit /\ [][PureNext]_vars

\* ------------------------------------------------------------------------
\* Properties
\* ------------------------------------------------------------------------
Range(seq) == {seq[i] : i \in DOMAIN seq}

Unique(coll) == \A d, e \in coll : (d.postId = e.postId \/ d.url = e.url) => d = e

\* the run has gone through every post (of every company) it was given
ProcessedAll(run) ==
  /\ run.idx = Len(run.posts) + 1
  /\ run.kind = "batch" => run.ci = Len(run.list)

\* C1: however two runs that process the same post interleave, each
\* collection holds at most one record per postId and per url, and the run
\* whose insert met the uniqueness violation is not failed by it: it goes on
\* through its remaining posts and ends normally.
C1_OneRecordPerPost ==
  /\ Unique(paragraphs)
  /\ Unique(web3posts)
  /\ \A r \in RunIds :
       runs[r].dupHit =>
         /\ runs[r].pc # "raised"
         /\ runs[r].pc = "done" => ProcessedAll(runs[r])

\* a run lost the race for one post, went on, saved a later post and returned
C1_Witness ==
  \E r \in RunIds : runs[r].dupHit /\ runs[r].pc = "done" /\ Len(runs[r].saved) > 0

\* r2 repeats the ingest r1 after r1 has ended, and is served the same page
Repeats(r2, r1) ==
  /\ r1 \in runs[r2].after
  /\ runs[r1].kind = "ingest" /\ runs[r2].kind = "ingest"
  /\ SameRequest(runs[r1], runs[r2])
  /\ runs[r1].html # 0 /\ runs[r2].html = runs[r1].html
  /\ runs[r2].pc = "done"

InsertsNothing(r) == runs[r].saved = <<>> /\ ~\E d \in paragraphs : d.by = r

C3_BatchNeverRaises ==
  \A r \in RunIds : runs[r].kind = "batch" => runs[r].pc # "raised"

\* every fetch the batch run r issued for company c failed
AllFetchesFailed(r, c) ==
  /\ \E k \in DOMAIN BatchPlatforms : Handle(c, BatchPlatforms[k]) # ""
  /\ \A k \in DOMAIN BatchPlatforms :
       Handle(c, BatchPlatforms[k]) # "" =>
         <<c.companyName, BatchPlatforms[k], "failed">> \in runs[r].fetchLog

\* every fetch the batch run r issued for company c was answered
Processed(r, c) ==
  \A k \in DOMAIN BatchPlatforms :
    Handle(c, BatchPlatforms[k]) # "" =>
      \E o \in {"ok", "failed"} : <<c.companyName, BatchPlatforms[k], o>> \in runs[r].fetchLog

\* C4: when every fetch for one company of a batch run fails, the run has
\* still processed every other active company when it returns, its result
\* holds every record it stored for them, and it stored at least one for a
\* company whose pages were all served and whose store calls all answered
\* (when no other run was there to store it first).
C4_CompanyIsolation ==
  \A r \in RunIds :
    runs[r].kind = "batch" /\ runs[r].pc = "done" =>
      \A k \in DOMAIN runs[r].list :
        AllFetchesFailed(r, runs[r].list[k]) =>
          \A j \in DOMAIN companies :
            LET c == companies[j] IN
            c.isActive /\ c.companyName # runs[r].list[k].companyName =>
              /\ Processed(r, c)
              /\ \A d \in web3posts :
                   d.by = r /\ d.company = c.companyName => d \in Range(runs[r].saved)
              /\ (started = 1 /\ ~runs[r].storeErr
                    /\ \A p \in {"medium", "mirror", "pyarzgraph"} :
                         <<c.companyName, p, "failed">> \notin runs[r].fetchLog)
                   => \E d \in Range(runs[r].saved) : d.company = c.companyName

\* both fetches for acme failed and the run returned a record of beta
C4_Witness ==
  \E r \in RunIds :
    /\ runs[r].kind = "batch" /\ runs[r].pc = "done"
    /\ AllFetchesFailed(r, companies[1])
    /\ \E d \in Range(runs[r].saved) : d.company = "beta"

\* C5: an ingest for a name no active company bears fails with
\* company-not-found, one for a platform the company has no link for fails
\* with missing-link; neither issues a fetch nor changes the store.
\* (The directory is read when the lookup answers; the rejected run is
\* looked at after every later step.)
C5_IngestRejects ==
  [][ \A r \in RunIds :
        LET run  == runs[r]
            next == runs'[r]
            held == {k \in DOMAIN companies :
                       companies[k].companyName = run.companyName /\ companies[k].isActive}
        IN  /\ (run.kind = "ingest" /\ run.pc = "resolve" /\ next.pc # "resolve"
                   /\ next.err # "DirectoryError") =>
                  /\ held = {} => next.pc = "raised" /\ next.err = "CompanyNotFound"
                  /\ (held # {} /\ \A k \in held : PlatformLink(companies[k], run.platform) = "")
                       => next.pc = "raised" /\ next.err = "MissingLink"
                  /\ next.pc = "raised" => held = {} \/ \A k \in held : PlatformLink(companies[k], run.platform) = ""
            /\ next.err \in {"CompanyNotFound", "MissingLink"} =>
                  /\ next.fetchLog = {} /\ next.inflight = {} /\ next.hung = {} /\ next.html = 0
                  /\ next.saved = <<>>
                  /\ ~\E d \in paragraphs' : d.by = r ]_vars

\* an ingest for the inactive company was rejected
C5_Witness ==
  \E r \in RunIds :
    /\ runs[r].companyName = "gone" /\ runs[r].platform = "medium"
    /\ runs[r].pc = "raised" /\ runs[r].err = "CompanyNotFound"


\* the step is a call of the scheduler operation op
Calls(op) == calls' = calls + 1 /\ lastCall'.op = op

\* the live timer tasks of job n
LiveTasks(n) == {t \in DOMAIN tasks : tasks[t].name = n /\ tasks[t].status # "stopped"}

\* C6: when restartAll() has completed on a scheduler that was initialized
\* before, both jobs are registered and their timer tasks are not stopped.
C6_RestartReschedules ==
  lastCall.op = "restartAllJobs" /\ lastCall.wasInitialized /\ lastCall.returned =>
    \A n \in JobNames : n \in DOMAIN jobs /\ tasks[jobs[n]].status # "stopped"

\* C7: an initialize() made while the scheduler is initialized returns at
\* once and changes neither the registry, nor the timer tasks, nor the
\* flag; and once initialize() calls made one after the other have
\* initialized the scheduler, the registry holds the two jobs and each has
\* exactly one live timer task.
C7_InitializeIdempotent ==
  /\ [][Calls("initialize") /\ isInitialized =>
          /\ lastCall'.returned
          /\ jobs' = jobs /\ tasks' = tasks /\ isInitialized' = isInitialized
          /\ initPending' = initPending]_vars
  /\ [](lastCall.onlyInit /\ ~lastCall.overlap /\ isInitialized =>
          /\ DOMAIN jobs = JobNames
          /\ \A n \in JobNames : LiveTasks(n) = {jobs[n]})

\* a second initialize() found the scheduler initialized
C7_Witness ==
  /\ lastCall.op = "initialize" /\ lastCall.wasInitialized
  /\ lastCall.onlyInit /\ ~lastCall.overlap
  /\ DOMAIN jobs = JobNames

\* C8: a stopAll() step leaves the registry empty and every task that was
\* in it stopped, whatever the state it is called in.
C8_StopAllStopsAndClears ==
  [][Calls("stopAllJobs") =>
       /\ jobs' = EmptyMap
       /\ \A n \in DOMAIN jobs : tasks'[jobs[n]].status = "stopped"]_vars

\* stopAll() was called with both jobs registered, and they are stopped
C8_Witness ==
  /\ lastCall.op = "stopAllJobs"
  /\ DOMAIN lastCall.registry = JobNames
  /\ \A n \in JobNames : tasks[lastCall.registry[n]].status = "stopped"

\* C9: a status() step returns one entry per registered job name, and each
\* entry tells whether the job's timer task reports "scheduled" in the state
\* of the call.
C9_StatusFromTimer ==
  [][Calls("getJobStatus") =>
       /\ DOMAIN lastCall'.result = DOMAIN jobs
       /\ \A n \in DOMAIN jobs : lastCall'.result[n] = (tasks[jobs[n]].status = "scheduled")]_vars

\* status() answered for both jobs of an initialized scheduler, and one of
\* them, its callback running, was reported as not scheduled
C9_Witness ==
  /\ lastCall.op = "getJobStatus"
  /\ lastCall.wasInitialized
  /\ DOMAIN lastCall.result = JobNames
  /\ \E n, m \in JobNames : lastCall.result[n] /\ ~lastCall.result[m]

\* C10: under fairness of the steps of the run, every batch run ends.
C10_BatchCompletes ==
  \A r \in RunIds : (runs[r].kind = "batch") ~> Ended(runs[r])

\* the collection a run of this kind reads and writes
StoreOf(run) == IF run.kind = "ingest" THEN paragraphs ELSE web3posts

\* the store holds no record with the post's postId and none with its url
NoMatch(coll, post) == \A d \in coll : d.postId # post.postId /\ d.url # post.url

\* C11: a run goes from the existence check of a post to its insert only
\* when the store holds no record with the same postId and none with the
\* same url (a match on either alone ends the post there), and every record
\* either pipeline inserts matches no record already stored on postId or url.
C11_DedupOrCombined ==
  [][ /\ \A r \in RunIds :
           runs[r].pc = "check" /\ runs'[r].pc = "save" =>
             NoMatch(StoreOf(runs[r]), runs[r].posts[runs[r].idx])
      /\ runs' # runs =>
           /\ \A d \in paragraphs' \ paragraphs : NoMatch(paragraphs, d)
           /\ \A d \in web3posts' \ web3posts : NoMatch(web3posts, d) ]_vars

\* an ingest ended without a store error or a duplicate-key error, and did
\* not insert a post of its page whose url, but not whose postId, a stored
\* record bears
C11_Witness ==
  \E r \in RunIds :
    /\ runs[r].kind = "ingest" /\ runs[r].pc = "done"
    /\ ~runs[r].storeErr /\ ~runs[r].dupHit
    /\ \E i \in DOMAIN runs[r].posts : \E e \in paragraphs :
         /\ ~InsufficientContent(runs[r].posts[i])
         /\ e.url = runs[r].posts[i].url /\ e.postId # runs[r].posts[i].postId
         /\ ~\E d \in paragraphs : d.by = r /\ d.url = e.url

\* C12: every step of an ingest either leaves both the store and the list
\* the call returns as they are, or inserts one record and appends that
\* record to the list; the record was not in the store before, is in it
\* after, bears the run's company and platform, and is the post under
\* examination, whose content passed the check.  So the list is what the
\* call inserted, and holds no post that was found in the store, rejected
\* by the content check or not persisted.
C12_ReturnsWhatItInserted ==
  [][ \A r \in RunIds :
        LET run  == runs[r]
            next == runs'[r]
            new  == {d \in paragraphs' \ paragraphs : d.by = r}
        IN  next.kind = "ingest" =>
              \/ next.saved = run.saved /\ new = {}
              \/ \E d \in new :
                   /\ new = {d}
                   /\ next.saved = Append(run.saved, d)
                   /\ NoMatch(paragraphs, d)
                   /\ d.companyName = run.companyName /\ d.platform = run.platform
                   /\ d.postId = run.posts[run.idx].postId /\ d.url = run.posts[run.idx].url
                   /\ ~InsufficientContent(run.posts[run.idx]) ]_vars

\* an ingest ended whose page held a post the content check rejected, a
\* post whose save failed and a post it inserted: it returned the one record
\* it inserted
C12_Witness ==
  \E r \in RunIds :
    /\ runs[r].kind = "ingest" /\ runs[r].pc = "done"
    /\ \E i \in DOMAIN runs[r].posts : InsufficientContent(runs[r].posts[i])
    /\ runs[r].failed # {}
    /\ Len(runs[r].saved) = 1
    /\ Range(runs[r].saved) = {d \in paragraphs : d.by = r}

\* run r stored a record of the post at position i of its page
StoredBy(r, i) == \E d \in paragraphs : d.by = r /\ d.url = runs[r].posts[i].url

\* C13: an ingest in which persisting a post failed (the store rejected the
\* lookup or the save, or the record failed validation) has not raised; the
\* failed post is in neither the list it returns nor among the records it
\* stored; and once it has returned it has gone through every post of the
\* page: every other post that passes the content check has a record in the
\* store (as long as the company's entry, and with it its records, has not
\* been deleted).
C13_PostFailureIsolated ==
  \A r \in RunIds :
    LET run == runs[r] IN
    run.kind = "ingest" /\ run.failed # {} =>
      /\ run.pc # "raised" /\ run.err = ""
      /\ \A i \in run.failed :
           /\ ~StoredBy(r, i)
           /\ \A d \in Range(run.saved) : d.url # run.posts[i].url
      /\ run.pc = "done" =>
           /\ ProcessedAll(run)
           /\ \A j \in DOMAIN run.posts :
                (/\ j \notin run.failed
                 /\ ~InsufficientContent(run.posts[j])
                 /\ \E k \in DOMAIN companies : companies[k].companyName = run.companyName)
                => \E d \in paragraphs : d.postId = run.posts[j].postId \/ d.url = run.posts[j].url

\* an ingest returned the record of a post that came after one whose
\* persisting failed
C13_Witness ==
  \E r \in RunIds :
    /\ runs[r].kind = "ingest" /\ runs[r].pc = "done"
    /\ \E i \in runs[r].failed : \E j \in DOMAIN runs[r].posts :
         /\ j > i
         /\ StoredBy(r, j)
         /\ \E d \in Range(runs[r].saved) : d.url = runs[r].posts[j].url

\* C14: no post an extractor handed to a run has content that is empty or
\* shorter than 10 characters, and no record a run stored has.
C14_ContentGate ==
  /\ \A r \in RunIds : \A i \in DOMAIN runs[r].posts : ~InsufficientContent(runs[r].posts[i])
  /\ \A d \in paragraphs \cup web3posts : d.by \in RunIds => ~InsufficientContent(d)

\* the names run r has issued a fetch for or stored a record under
Touched(r, rs, ps, ws) ==
  {e[1] : e \in rs[r].fetchLog}
    \cup (IF rs[r].inflight \cup rs[r].hung = {} THEN {}
          ELSE IF rs[r].kind = "ingest" THEN {rs[r].companyName}
          ELSE {rs[r].list[rs[r].ci].companyName})
    \cup {d.companyName : d \in {d \in ps : d.by = r}}
    \cup {d.company : d \in {d \in ws : d.by = r}}

C16_PipelineOnlyInserts ==
  [][ runs' # runs =>
        /\ paragraphs \subseteq paragraphs'
        /\ web3posts \subseteq web3posts'
        /\ \A d \in paragraphs' \ paragraphs : ~d.processed /\ d.processedAt = 0 ]_vars

\* a run inserted a record into a collection that held a processed record,
\* which is still there
C16_Witness ==
  \E d \in paragraphs : \E e \in paragraphs :
    /\ d.by \notin RunIds /\ d.processed /\ d.processedAt # 0
    /\ e.by \in RunIds /\ ~e.processed
    /\ runs[e.by].pc = "done"

\* C17: no step removes a company's entry from the directory or changes
\* more of it than its active flag, to false, and no step of the directory
\* removes a record of either collection.
C17_SoftDelete ==
  [][ /\ \A k \in DOMAIN companies : \E j \in DOMAIN companies' :
           \/ companies'[j] = companies[k]
           \/ companies'[j] = [companies[k] EXCEPT !.isActive = FALSE]
      /\ \A d \in paragraphs : \E e \in paragraphs' : e.url = d.url
      /\ web3posts \subseteq web3posts' ]_vars

\* the posts ingest would persist for the link's page version v, from a
\* store that holds none of them
IngestWouldPersist(platform, link, v, maxPosts) ==
  LET posts == ScrapeFromLink(platform, PageVersions(link)[v], maxPosts)
  IN  {<<posts[i].postId, posts[i].url>> :
         i \in {i \in DOMAIN posts : ~InsufficientContent(posts[i])}}

\* C18: when a batch run that met no failure, alone on a store that was
\* empty, has returned, then for every company it listed and every platform
\* the company has a link for, the records it persisted for them in the
\* Paragraph collection are those an ingest of that company and platform,
\* with the same maxPosts, persists from some page the site serves.
C18_BatchIsIngestPerPlatform ==
  \A r \in RunIds :
    LET run == runs[r] IN
    (/\ run.kind = "batch" /\ run.pc = "done" /\ started = 1
     /\ run.faults = 0 /\ ~run.storeErr /\ ~budget.primed /\ budget.directory = {}) =>
      \A k \in DOMAIN run.list : \A p \in IngestPlatforms :
        LET c    == run.list[k]
            link == PlatformLink(c, p)
        IN  link # "" =>
              \E v \in Versions[link] :
                {<<d.postId, d.url>> :
                   d \in {d \in paragraphs :
                            d.by = r /\ d.companyName = c.companyName /\ d.platform = p}}
                  = IngestWouldPersist(p, link, v, run.maxPosts)

\* "utm_"
StrUtmPrefix == <<117, 116, 109, 95>>

\* the parameters the specification lists: every utm_ parameter, and
\* source, fbclid, gclid, ref, referrer, campaign, medium, content, term,
\* _ga, _gl, mc_cid, mc_eid, msclkid, yclid
ListedTracking(key) ==
  \/ StartsWith(key, StrUtmPrefix)
  \/ \E i \in {1} \cup (7..20) : key = trackingParams[i]

\* the query parameters of the call's URL, as <<key, value>> pairs
InputParams == [i \in 1..Len(input.keys) |-> <<input.keys[i], <<48 + i>>>>]

\* C19: the URL cleanUrl returns carries no listed tracking parameter; on a
\* host that contains "medium.com" it carries no query parameter at all, on
\* any other host it carries every other parameter of the input, with its
\* value, in the input's order.
C19_Normalize ==
  (input.fn = "cleanUrl" /\ output.returned) =>
    LET out == ParseUrl(output.value).searchParams IN
    /\ \A i \in DOMAIN out : ~ListedTracking(out[i][1])
    /\ IF Includes(input.origin, StrMediumCom)
       THEN Len(out) = 0
       ELSE out = SelectSeq(InputParams, LAMBDA kv : ~ListedTracking(kv[1]))

\* a is b with some of its elements left out
RECURSIVE IsSubseq(_, _)
IsSubseq(a, b) ==
  IF Len(a) = 0 THEN TRUE
  ELSE IF Len(b) = 0 THEN FALSE
  ELSE IF Head(a) = Head(b) THEN IsSubseq(Tail(a), Tail(b))
  ELSE IsSubseq(a, Tail(b))

\* the ordered container selectors of fetchMediumPostsFromLink,
\* fetchParagraphPostsFromLink and fetchMirrorPostsFromLink
SelectorList(platform) ==
  CASE platform = "medium" ->
         << "article[data-testid='post-preview']", "article",
            "[data-testid='post-preview']", ".postArticle" >>
    [] platform = "paragraph" -> << "article", ".post", "[data-testid='post']" >>
    [] platform = "mirror"    -> << "[data-testid='post-card']", ".post-card", "article" >>

\* an element that some selector of the platform matches
IsContainer(el, platform) ==
  \E i \in DOMAIN SelectorList(platform) : Matches(el, SelectorList(platform)[i])

\* a container with a title, a link and at least 10 characters of content
WellFormed(el, platform) ==
  /\ IsContainer(el, platform)
  /\ el.title # 0 /\ Len(el.link) # 0
  /\ (IF platform = "medium" THEN MediumContent(el) ELSE el.plen) >= MinContentLen

\* the urls of the posts of the linked containers, in document order
UrlsOf(els, platform) ==
  LET base   == CASE platform = "medium" -> MediumBase
                  [] platform = "paragraph" -> ParagraphBase
                  [] platform = "mirror" -> MirrorBase
      linked == SelectSeq(els, LAMBDA el : Len(el.link) # 0)
  IN  [i \in 1..Len(linked) |-> cleanUrl(FullUrl(linked[i].link, base))]

\* C20: an extractor returns at most maxPosts posts, in the order of their
\* containers in the page; over a page with at least maxPosts well-formed
\* containers it returns the posts of the first maxPosts of them.
C20_CappedInOrder ==
  (input.fn = "extract" /\ output.returned) =>
    LET urls == [i \in 1..Len(output.value) |-> output.value[i].url]
        wf   == SelectSeq(input.page, LAMBDA el : WellFormed(el, input.platform))
    IN  /\ Len(urls) <= input.maxPosts
        /\ IsSubseq(urls, UrlsOf(input.page, input.platform))
        /\ Len(wf) >= input.maxPosts =>
             urls = UrlsOf(SubSeq(wf, 1, input.maxPosts), input.platform)

\* C21: a batch run has at most one fetch outstanding at any moment, and
\* while it examines or stores the posts of a company, or waits between two
\* companies, it has none.
C21_StrictlySequential ==
  \A r \in RunIds :
    runs[r].kind = "batch" =>
      /\ Cardinality(runs[r].inflight \cup runs[r].hung) <= 1
      /\ runs[r].pc \in {"check", "save", "delay"} => runs[r].inflight \cup runs[r].hung = {}

\* C22: a batch run goes from one company to the next only by a step in
\* which the 2 s delay elapses; so before any work for the i-th company of
\* its list at least i-1 delays have elapsed, whatever became of the
\* companies before it, and a run that returned has waited at least N-1
\* times over a list of N companies.
C22_DelayBetweenCompanies ==
  [][ \A r \in RunIds :
        LET run  == runs[r]
            next == runs'[r]
        IN  next.kind = "batch" =>
              /\ (run.ci >= 1 /\ next.ci # run.ci) =>
                   /\ next.ci = run.ci + 1
                   /\ run.pc = "delay" /\ run.inflight \cup run.hung = {}
                   /\ next.delays = run.delays + 1
              /\ next.ci >= 1 => next.delays >= next.ci - 1
              /\ (next.pc = "done" /\ Len(next.list) >= 1) =>
                   next.delays >= Len(next.list) - 1 ]_vars

\* a batch run over two companies returned; every fetch for the first had
\* failed, and a delay lay before the second
C22_Witness ==
  \E r \in RunIds :
    /\ runs[r].kind = "batch" /\ runs[r].pc = "done"
    /\ Len(runs[r].list) >= 2
    /\ AllFetchesFailed(r, runs[r].list[1])
    /\ runs[r].delays >= Len(runs[r].list) - 1
    /\ \E e \in runs[r].fetchLog : e[1] = runs[r].list[2].companyName

\* ------------------------------------------------------------------------
\* C23: over a directory of one inactive company and one active company that
\* has no link for any platform, a batch run issues no fetch, inserts
\* nothing, returns the empty list and raises nothing; an on-demand ingest
\* for that active company is rejected with missing-link.
\* ------------------------------------------------------------------------
Linkless(c) == \A k \in 1..Len(BatchPlatforms) : Handle(c, BatchPlatforms[k]) = ""

C23_MissingLinkIsSkip ==
  (companies = BareDirectory) =>
    \A r \in RunIds :
      /\ runs[r].kind = "batch" =>
           /\ runs[r].fetchLog = {}
           /\ runs[r].inflight \cup runs[r].hung = {}
           /\ runs[r].saved = <<>>
           /\ \A d \in StoreOf(runs[r]) : d.by # r
           /\ runs[r].pc # "raised"
      /\ (runs[r].kind = "ingest" /\ runs[r].companyName = "bare" /\ runs[r].pc # "resolve") =>
           /\ runs[r].pc = "raised" /\ runs[r].err = "MissingLink"
           /\ runs[r].fetchLog = {}

C23_Witness ==
  /\ companies = BareDirectory
  /\ \E c \in Range(companies) : ~c.isActive
  /\ \E r \in RunIds :
       /\ runs[r].kind = "batch" /\ runs[r].pc = "done"
       /\ Len(runs[r].list) = 1 /\ Linkless(runs[r].list[1])
       /\ runs[r].list[1].isActive
       /\ runs[r].saved = <<>> /\ runs[r].fetchLog = {}

\* the elements matched by the first selector of the platform's list that
\* matches at least one element of the page
FirstMatching(page, platform) ==
  LET sels == SelectorList(platform)
      hits == {i \in DOMAIN sels : Len(Select(page, {sels[i]})) # 0}
  IN  IF hits = {} THEN <<>>
      ELSE Select(page, {sels[CHOOSE i \in hits : \A j \in hits : i <= j]})

\* what the extractor's loop body keeps of a container
Kept(el, platform) ==
  /\ el.title # 0 /\ Len(el.link) # 0
  /\ platform = "medium" => MediumContent(el) >= MinContentLen

\* C24: the posts an extractor returns are those of the containers matched
\* by the first selector of the platform's ordered list that matches any
\* element (the first maxPosts of them, those the loop keeps); an element
\* matched only by a later selector yields no post when an earlier one matched.
C24_FirstMatchFallback ==
  (input.fn = "extract" /\ output.returned) =>
    LET urls  == [i \in 1..Len(output.value) |-> output.value[i].url]
        first == Slice(FirstMatching(input.page, input.platform), input.maxPosts)
    IN  urls = UrlsOf(SelectSeq(first, LAMBDA el : Kept(el, input.platform)), input.platform)

\* the same, of fetchMediumPostsFromLink alone
MediumFirstMatchFallback ==
  (input.fn = "extract" /\ input.platform = "medium") => C24_FirstMatchFallback

\* a manual trigger may arrive (the behaviour explored still has a run and
\* a trigger to spend)
TriggerMayArrive == started < budget.runs /\ budget.trigger # {}

\* C25: triggerWeb3ContentFetching starts a batch run whatever the state of
\* the scheduler (never initialized, scheduled, stopped, a scheduled firing
\* in progress), and neither the call nor any step of the run it started
\* changes the job registry, a timer task or the initialized flag.
C25_TriggerFrame ==
  /\ [](TriggerMayArrive =>
          \A arg \in budget.trigger : ENABLED triggerWeb3ContentFetching(started + 1, arg))
  /\ [][ \A r \in RunIds :
           (runs'[r].origin = "manual" /\ runs'[r] # runs[r]) =>
              /\ runs'[r].kind = "batch"
              /\ UNCHANGED <<jobs, tasks, isInitialized>> ]_vars

C25_Witness ==
  \E r, q \in RunIds :
    /\ runs[r].origin = "manual" /\ runs[r].kind = "batch" /\ ~Ended(runs[r])
    /\ runs[q].origin = "schedule" /\ ~Ended(runs[q])
    /\ q < r
    /\ tasks[runs[q].task].status = "running"
    /\ isInitialized /\ DOMAIN jobs = JobNames

\* a manual run started before the scheduler was ever initialized
TriggeredUninitialized ==
  \E r \in RunIds : runs[r].origin = "manual" /\ ~isInitialized /\ tasks = <<>> /\ calls = 0

\* a manual run started after the jobs were stopped
TriggeredStopped ==
  \E r \in RunIds :
    /\ runs[r].origin = "manual" /\ runs[r].pc = "list"
    /\ lastCall.op = "stopAllJobs" /\ jobs = EmptyMap
    /\ tasks # <<>> /\ \A t \in DOMAIN tasks : tasks[t].status = "stopped"

\* C26: while initialize() is the only operation called on the scheduler,
\* also when two of its calls overlap, no job name has more than one live
\* timer task, and every live timer task is the one the registry holds
\* under its name.
C26_OneLiveTaskPerJob ==
  lastCall.onlyInit =>
    \A n \in JobNames :
      /\ Cardinality(LiveTasks(n)) <= 1
      /\ \A t \in LiveTasks(n) : n \in DOMAIN jobs /\ jobs[n] = t

\* the bytes of a URL that 32 base64 characters encode
PrefixBytes == (PostIdLen \div 4) * 3

\* two URLs that differ and agree on their first PrefixBytes bytes, those
\* bytes encoding to 32 alphanumeric characters
AgreeOnPrefix(u, v) ==
  /\ u # v
  /\ Slice(u, PrefixBytes) = Slice(v, PrefixBytes)
  /\ Len(generatePostId(Slice(u, PrefixBytes))) = PostIdLen

\* the store holds a record with the post's postId and none with its url
PostIdClash(coll, post) ==
  /\ \E d \in coll : d.postId = post.postId
  /\ \A d \in coll : d.url # post.url

\* C27: two posts of distinct URLs that agree on the prefix have the same
\* postId; and an ingest whose existence check finds a stored record with
\* the post's postId, none having its url, goes on to the next post: it
\* neither inserts the post nor lists it.
C27_PrefixCollisionSkipped ==
  /\ [](\A r \in RunIds : \A i, j \in DOMAIN runs[r].posts :
          (i < j /\ AgreeOnPrefix(runs[r].posts[i].url, runs[r].posts[j].url)) =>
            runs[r].posts[i].postId = runs[r].posts[j].postId)
  /\ [][ \A r \in RunIds :
           LET run == runs[r] IN
           (/\ run.kind = "ingest" /\ run.pc = "check"
            /\ PostIdClash(paragraphs, run.posts[run.idx])
            /\ runs'[r] # run /\ runs'[r].faults = run.faults) =>
              /\ runs'[r] = IngestLoop(run, run.idx + 1)
              /\ paragraphs' = paragraphs ]_vars

C27_Witness ==
  \E r \in RunIds : \E i, j \in DOMAIN runs[r].posts :
    /\ runs[r].kind = "ingest" /\ runs[r].pc = "done"
    /\ i < j
    /\ AgreeOnPrefix(runs[r].posts[i].url, runs[r].posts[j].url)
    /\ \E d \in paragraphs : d.by = r /\ d.url = runs[r].posts[i].url
    /\ PostIdClash(paragraphs, runs[r].posts[j])
    /\ \A k \in DOMAIN runs[r].saved : runs[r].saved[k].url # runs[r].posts[j].url
    /\ ~runs[r].storeErr

\* the list of run r holds the record d
Lists(r, d) == \E k \in DOMAIN runs[r].saved : runs[r].saved[k] = d

\* C28: whatever runs overlap on a store, a record a run inserted is in the
\* list of that run and in the list of no other; no list holds a record
\* twice, or a record that shares its postId or url with a record of
\* another list; and every listed record is in the store (as long as the
\* entry of its company has not been deleted with its records).
C28_ReportedByOneRun ==
  \A r \in RunIds :
    LET run  == runs[r]
        coll == StoreOf(run)
    IN  run.kind # "none" =>
          /\ \A d \in coll : d.by = r =>
               /\ Lists(r, d)
               /\ \A q \in RunIds \ {r} : ~Lists(q, d)
          /\ \A k \in DOMAIN run.saved :
               /\ run.saved[k] \in coll
                    \/ /\ run.kind = "ingest"
                       /\ \A i \in DOMAIN companies :
                            companies[i].companyName # run.companyName
               /\ \A l \in DOMAIN run.saved :
                    l # k => run.saved[l].url # run.saved[k].url
               /\ \A q \in RunIds \ {r} :
                    runs[q].kind = run.kind =>
                      \A l \in DOMAIN runs[q].saved :
                        /\ runs[q].saved[l].url # run.saved[k].url
                        /\ runs[q].saved[l].postId # run.saved[k].postId

C28_Witness ==
  \E r, q \in RunIds :
    /\ r # q
    /\ runs[r].pc = "done" /\ runs[q].pc = "done"
    /\ r \notin runs[q].after /\ q \notin runs[r].after
    /\ runs[q].dupHit
    /\ \E d \in StoreOf(runs[r]) :
         /\ d.by = r /\ Lists(r, d) /\ ~Lists(q, d)
         /\ \E i \in DOMAIN runs[q].posts : runs[q].posts[i].url = d.url

\* C29: stopAllJobs() and shutdown() stop every registered timer task and
\* change no run; a stopped task stays stopped and a scheduled run starts
\* only from a task that is not stopped; so a run in progress, started by
\* the schedule or by a manual trigger, goes on after the stop.
C29_StopLeavesRunsAlone ==
  [][ /\ (Calls("stopAllJobs") \/ Calls("shutdown")) =>
            /\ runs' = runs /\ paragraphs' = paragraphs /\ web3posts' = web3posts
            /\ \A n \in DOMAIN jobs : tasks'[jobs[n]].status = "stopped"
      /\ \A t \in DOMAIN tasks :
            tasks[t].status = "stopped" => tasks'[t].status = "stopped"
      /\ \A r \in RunIds :
            (runs[r].kind = "none" /\ runs'[r].origin = "schedule") =>
               /\ tasks[runs'[r].task].status # "stopped"
               /\ lastCall.op \in {"stopAllJobs", "shutdown"} =>
                    \A n \in DOMAIN lastCall.registry : lastCall.registry[n] # runs'[r].task
    ]_vars

C29_Witness ==
  \E r \in RunIds :
    /\ runs[r].origin = "schedule" /\ runs[r].pc = "done"
    /\ runs[r].afterStop
    /\ tasks[runs[r].task].status = "stopped"
    /\ \E d \in web3posts : d.by = r

\* a manual run that inserted after the stop
ManualRunInsertsAfterStop ==
  \E r \in RunIds :
    /\ runs[r].origin = "manual" /\ runs[r].afterStop
    /\ \A t \in DOMAIN tasks : tasks[t].status = "stopped"
    /\ tasks # <<>>

MarkFns == {"markParagraphAsProcessed", "bulkMarkParagraphsAsProcessed"}

\* the step answers a request on the processed flag
Marks == input'.fn \in MarkFns /\ <<input, output, paragraphs>>' # <<input, output, paragraphs>>

\* the record of the next state that d has become
Successors(d) == {e \in paragraphs' : e.url = d.url /\ e.by = d.by}

\* C30: a record has processedAt exactly when it is processed; no step
\* resets the flag; a step changes a stored record only as the answer to a
\* mark request that names its id and its company, and then sets processed
\* and processedAt; and a single mark answers not-found exactly when no
\* record has the requested id and company.
C30_ProcessedMonotonicScoped ==
  /\ [](\A d \in paragraphs : d.processed <=> d.processedAt # 0)
  /\ [][ /\ \A d \in paragraphs : \A e \in Successors(d) :
              /\ d.processed => e.processed
              /\ e # d =>
                   /\ Marks
                   /\ d.postId \in input'.ids /\ d.companyName = input'.companyName
                   /\ e = [d EXCEPT !.processed = TRUE, !.processedAt = e.processedAt]
         /\ (Marks /\ input'.fn = "markParagraphAsProcessed") =>
              (output'.value = <<404>> <=>
                 ~\E d \in paragraphs :
                    d.postId \in input'.ids /\ d.companyName = input'.companyName)
       ]_vars

C30_Witness ==
  /\ input.fn = "markParagraphAsProcessed"
  /\ output.value = <<404>>
  /\ \E d \in paragraphs :
       /\ d.postId \in input.ids /\ d.companyName # input.companyName
       /\ ~d.processed /\ d.processedAt = 0
  /\ \E e \in paragraphs :
       /\ e.postId # LegacyPostId
       /\ e.processed /\ e.processedAt # 0

=============================================================================
